---------------------------- MODULE Spec2Model ----------------------------
(***************************************************************************)
(* A model of src/src/addHeaderGuard.ts (vscode-cmantic): the symbol tree  *)
(* (SourceSymbol, CSymbol), the per-file symbol cache (SourceFile,         *)
(* SourceDocument), the lexical masker and the position heuristics.        *)
(*                                                                         *)
(* Text is a sequence of one-character strings.  JavaScript regular        *)
(* expressions are modelled by operators that compute, for a text and a    *)
(* start index, what the regular expression matches there.  A 0-based      *)
(* JavaScript index i is the 1-based TLA+ index i + 1; operators that      *)
(* return an index to the program return the 0-based one.                  *)
(***************************************************************************)
EXTENDS Integers, Sequences, FiniteSets, TLC

VARIABLES
    member,         \* the CSymbol the naming queries are asked of: [id, kind]
    getterResult,   \* what getterName() returned, NotCalled before the call
    setterResult,   \* what setterName() returned, NotCalled before the call
    baseResult,     \* what baseName() returned, NotCalled before the call
    source,         \* the text maskUnimportantText is called with
    masked,         \* what it returned, NotCalled before the call
    parameters,     \* the parameter list stripDefaultValues is called with
    stripped,       \* what it returned, NotCalled before the call
    guardText,      \* the text of the document a header guard is placed in
    guardPos,       \* what findPositionForNewHeaderGuard returned, or NoPosition
    heap,           \* the SourceSymbol and CSymbol objects constructed so far
    symbols,        \* SourceFile.symbols: Undefined, or the ids of the cached tree's roots
    returned,       \* what the last call of executeSourceSymbolProvider returned
    wrapped,        \* the CSymbol the last query constructed, 0 before any
    treePc,         \* where the single caller of the tree operations stands
    qpc,            \* per query in flight: "idle", "awaiting" the provider, or "done"
    qkind,          \* per query: "lazy" (a query that fills the cache) or "explicit"
    providerCalls,  \* how often vscode.executeDocumentSymbolProvider was invoked
    explicitCalls,  \* how often executeSourceSymbolProvider was called from outside
    started,        \* how many queries have been started
    includeLines,   \* the lines of the document a new include is placed in
    anchors,        \* what findPositionForNewInclude returned, NoAnchors before the call
    classInput,     \* the document a method is placed in: [prefix, kind, members]
    classSymbol,    \* the CSymbol of the document's class, 0 before it is constructed
    methodArgs,     \* the arguments findPositionForNewMethod was called with
    methodResult,   \* what it returned, NoPosition for undefined
    methodPc,       \* "start", "constructed" (the CSymbol exists) or "called"
    definitionResults, \* the definition provider's answer: [present, list]
    workspaceFolders,  \* vscode.workspace.workspaceFolders: [present, list] of paths
    definition,        \* what findDefinitionInWorkspace returned, NoLocation for undefined
    lookupPc,          \* "start" or "called"
    targetSymbols,  \* symbols of the target SourceDocument: Undefined, or the roots' ids
    declaration,    \* the CSymbol a query of the header returned, 0 before it
    queried,        \* the position the target was queried at, NoPos before the query
    foundSymbol,    \* what target.getSymbol(queried) returned, 0 for undefined
    callArgs,       \* the inputs of the last call: [resolves, position]
    proposed,       \* what findPositionForNewDefinition returned, NoPosition before
    qualified,      \* the scope string newFunctionDefinition built, NotCalled before
    targetPc        \* "start", "declared", "returned", "raised" or "formatted"

nameVars == <<member, getterResult, setterResult, baseResult>>
maskVars == <<source, masked>>
stripVars == <<parameters, stripped>>
guardVars == <<guardText, guardPos>>
fileVars == <<heap, symbols, returned>>
treeVars == <<wrapped, treePc>>
cacheVars == <<qpc, qkind, providerCalls, explicitCalls, started>>
includeVars == <<includeLines, anchors>>
methodVars == <<classInput, classSymbol, methodArgs, methodResult, methodPc>>
lookupVars == <<definitionResults, workspaceFolders, definition, lookupPc>>
targetVars == <<targetSymbols, declaration, queried, foundSymbol, callArgs, proposed, qualified,
                targetPc>>

vars == <<nameVars, maskVars, stripVars, guardVars, fileVars, treeVars, cacheVars, includeVars, methodVars, lookupVars, targetVars>>

----------------------------------------------------------------------------
(* Each specification below exercises some parts of the program; the parts  *)
(* it does not exercise stay as constructed (Idle) and are left alone       *)
(* (Frame).                                                                 *)

NotCalled == <<"<not called>">>

\* A ProposedPosition: value is a vscode.Position, the flags are "true",
\* "false" or "unset" (the property is left out).
NoPosition == [value |-> [line |-> -1, character |-> -1],
               before |-> "unset", after |-> "unset", nextTo |-> "unset"]

\* this.symbols of a SourceFile before its first assignment.
Undefined == <<0>>

\* The result of findPositionForNewInclude before any call.
NoAnchors == [system |-> [line |-> -1, character |-> -1],
              project |-> [line |-> -1, character |-> -1]]

\* No memberVariable argument.
NoMember == [id |-> <<>>, kind |-> "none"]

\* No vscode.Location: undefined.
NoLocation == [path |-> <<>>, range |-> [start |-> [line |-> -1, character |-> -1],
                                         end |-> [line |-> -1, character |-> -1]]]

\* Every part of the program but those of own is as constructed, no call made.
Idle(own) ==
    /\ IF "names" \in own THEN TRUE
       ELSE /\ member = [id |-> <<"x">>, kind |-> "Field"]
            /\ getterResult = NotCalled
            /\ setterResult = NotCalled
            /\ baseResult = NotCalled
    /\ IF "mask" \in own THEN TRUE
       ELSE /\ source = <<>>
            /\ masked = NotCalled
    /\ IF "strip" \in own THEN TRUE
       ELSE /\ parameters = <<>>
            /\ stripped = NotCalled
    /\ IF "guard" \in own THEN TRUE
       ELSE /\ guardText = <<>>
            /\ guardPos = NoPosition
    /\ IF "file" \in own THEN TRUE
       ELSE /\ heap = <<>>
            /\ symbols = Undefined
            /\ returned = Undefined
    /\ IF "tree" \in own THEN TRUE
       ELSE /\ wrapped = 0
            /\ treePc = "fresh"
    /\ IF "cache" \in own THEN TRUE
       ELSE /\ qpc = [q \in {1, 2} |-> "idle"]
            /\ qkind = [q \in {1, 2} |-> "lazy"]
            /\ providerCalls = 0
            /\ explicitCalls = 0
            /\ started = 0
    /\ IF "include" \in own THEN TRUE
       ELSE /\ includeLines = <<>>
            /\ anchors = NoAnchors
    /\ IF "method" \in own THEN TRUE
       ELSE /\ classInput = [prefix |-> 0, kind |-> "Class", members |-> <<>>]
            /\ classSymbol = 0
            /\ methodArgs = [relativeName |-> <<>>, memberVariable |-> NoMember]
            /\ methodResult = NoPosition
            /\ methodPc = "start"
    /\ IF "lookup" \in own THEN TRUE
       ELSE /\ definitionResults = [present |-> FALSE, list |-> <<>>]
            /\ workspaceFolders = [present |-> FALSE, list |-> <<>>]
            /\ definition = NoLocation
            /\ lookupPc = "start"
    /\ IF "target" \in own THEN TRUE
       ELSE /\ targetSymbols = Undefined
            /\ declaration = 0
            /\ queried = [line |-> -1, character |-> -1]
            /\ foundSymbol = 0
            /\ callArgs = [resolves |-> <<>>, position |-> [line |-> -1, character |-> -1]]
            /\ proposed = NoPosition
            /\ qualified = NotCalled
            /\ targetPc = "start"

\* Every part of the program but those of own is left as it is.
Frame(own) ==
    /\ IF "names" \in own THEN TRUE ELSE UNCHANGED nameVars
    /\ IF "mask" \in own THEN TRUE ELSE UNCHANGED maskVars
    /\ IF "strip" \in own THEN TRUE ELSE UNCHANGED stripVars
    /\ IF "guard" \in own THEN TRUE ELSE UNCHANGED guardVars
    /\ IF "file" \in own THEN TRUE ELSE UNCHANGED fileVars
    /\ IF "tree" \in own THEN TRUE ELSE UNCHANGED treeVars
    /\ IF "cache" \in own THEN TRUE ELSE UNCHANGED cacheVars
    /\ IF "include" \in own THEN TRUE ELSE UNCHANGED includeVars
    /\ IF "method" \in own THEN TRUE ELSE UNCHANGED methodVars
    /\ IF "lookup" \in own THEN TRUE ELSE UNCHANGED lookupVars
    /\ IF "target" \in own THEN TRUE ELSE UNCHANGED targetVars

----------------------------------------------------------------------------
(* Text helpers *)

Concat(a, b) == a \o b

\* The sequences over alphabet A of length at most n.
RECURSIVE SeqsUpTo(_, _)
SeqsUpTo(A, n) ==
    IF n = 0 THEN {<<>>}
    ELSE LET shorter == SeqsUpTo(A, n - 1)
         IN shorter \cup {Append(s, c) : s \in {t \in shorter : Len(t) = n - 1}, c \in A}

Repeat(c, n) == [i \in 1..n |-> c]

LowerLetters == {"a", "b", "c", "d", "e", "f", "g", "i", "l", "m", "n", "o", "p", "r",
                 "s", "t", "u", "v", "w", "x"}
UpperLetters == {"A", "B", "C", "D", "E", "F", "G", "I", "L", "M", "N", "O", "P", "R",
                 "S", "T", "U", "V", "W", "X"}
Digits == {"0", "1", "2"}

\* \w of a JavaScript regular expression: [A-Za-z0-9_]
IsWordChar(c) == c \in LowerLetters \cup UpperLetters \cup Digits \cup {"_"}

\* \s of a JavaScript regular expression
IsSpaceChar(c) == c \in {" ", "\n", "\t"}

AllWordChars(s) == \A i \in 1..Len(s) : IsWordChar(s[i])

\* The number of leading underscores of s.
RECURSIVE LeadingUnderscores(_)
LeadingUnderscores(s) ==
    IF s = <<>> \/ Head(s) # "_" THEN 0 ELSE 1 + LeadingUnderscores(Tail(s))

\* The number of trailing underscores of s.
RECURSIVE TrailingUnderscores(_)
TrailingUnderscores(s) ==
    IF s = <<>> \/ s[Len(s)] # "_" THEN 0
    ELSE 1 + TrailingUnderscores(SubSeq(s, 1, Len(s) - 1))

----------------------------------------------------------------------------
(* CSymbol: accessor naming *)

\* util.firstCharToUpper: the text with its first character in upper case.
ToUpperChar(c) ==
    CASE c = "a" -> "A" [] c = "b" -> "B" [] c = "c" -> "C" [] c = "f" -> "F"
      [] c = "d" -> "D" [] c = "e" -> "E"
      [] c = "g" -> "G" [] c = "i" -> "I" [] c = "m" -> "M" [] c = "n" -> "N"
      [] c = "o" -> "O" [] c = "s" -> "S" [] c = "t" -> "T" [] c = "u" -> "U"
      [] c = "w" -> "W" [] c = "x" -> "X" [] c = "l" -> "L" [] c = "p" -> "P"
      [] c = "r" -> "R" [] c = "v" -> "V" [] OTHER -> c

firstCharToUpper(s) ==
    IF s = <<>> THEN s ELSE <<ToUpperChar(Head(s))>> \o Tail(s)

\* /^_+[\w_][\w\d_]*_*$/ : one or more underscores, then at least one more word
\* character, word characters to the end.
MatchesLeadingUnderscore(s) ==
    Len(s) >= 2 /\ s[1] = "_" /\ AllWordChars(s)

\* /^_*[\w_][\w\d_]*_+$/ : word characters only, the last one an underscore, at
\* least two characters.
MatchesTrailingUnderscore(s) ==
    Len(s) >= 2 /\ s[Len(s)] = "_" /\ AllWordChars(s)

\* /^m_[\w_][\w\d_]*$/
MatchesMPrefix(s) ==
    Len(s) >= 3 /\ s[1] = "m" /\ s[2] = "_" /\ AllWordChars(s)

\* memberName.replace(/^_+|_*$/g, ''): the leading run of underscores goes, and
\* so does the run of underscores that ends the text.  A text of underscores
\* only is consumed whole by ^_+.
ReplaceLeadingThenTrailing(s) ==
    LET lead == LeadingUnderscores(s)
        rest == SubSeq(s, lead + 1, Len(s))
    IN SubSeq(rest, 1, Len(rest) - TrailingUnderscores(rest))

\* memberName.replace(/^_*|_+$/g, ''): ^_* takes the leading underscores (all of
\* the text when it holds nothing else), _+$ the trailing ones.
ReplaceTrailingThenLeading(s) ==
    LET lead == LeadingUnderscores(s)
        rest == SubSeq(s, lead + 1, Len(s))
    IN SubSeq(rest, 1, Len(rest) - TrailingUnderscores(rest))

\* memberName.replace(/^m_/, '')
ReplaceMPrefix(s) ==
    IF Len(s) >= 2 /\ s[1] = "m" /\ s[2] = "_" THEN SubSeq(s, 3, Len(s)) ELSE s

\* CSymbol.baseName().  baseMemberName is undefined (None here) or a text; the
\* empty text is falsy in JavaScript, so a rule that yields it does not stop
\* the next rule, and the identifier itself is returned in the end.
baseName(sym) ==
    LET memberName == sym.id
        b1 == IF MatchesLeadingUnderscore(memberName)
              THEN ReplaceLeadingThenTrailing(memberName) ELSE <<>>
        b2 == IF MatchesTrailingUnderscore(memberName) /\ b1 = <<>>
              THEN ReplaceTrailingThenLeading(memberName) ELSE b1
        b3 == IF MatchesMPrefix(memberName) /\ b2 = <<>>
              THEN ReplaceMPrefix(memberName) ELSE b2
    IN IF b3 # <<>> THEN b3 ELSE memberName

isMemberVariable(sym) == sym.kind = "Field"

\* A getterName() that tests the decoration the wrong way round.
getterNameSwapped(sym) ==
    IF ~isMemberVariable(sym) THEN <<>>
    ELSE LET memberBaseName == baseName(sym)
         IN IF memberBaseName # sym.id
            THEN <<"g", "e", "t">> \o firstCharToUpper(memberBaseName)
            ELSE memberBaseName

\* CSymbol.getterName() called without an argument.
getterName(sym) ==
    IF ~isMemberVariable(sym) THEN <<>>
    ELSE LET memberBaseName == baseName(sym)
         IN IF memberBaseName = sym.id
            THEN <<"g", "e", "t">> \o firstCharToUpper(memberBaseName)
            ELSE memberBaseName

\* CSymbol.setterName() called without an argument.
setterName(sym) ==
    IF ~isMemberVariable(sym) THEN <<>>
    ELSE <<"s", "e", "t">> \o firstCharToUpper(baseName(sym))

\* The identifiers the naming queries are tried on: a decoration before and
\* after a stem.
MaxUnderscores == 2

Stems == { <<>>, <<"c">>, <<"c", "o", "u", "n", "t">>, <<"x", "1">>, <<"m">>,
           <<"c", "_", "t">>, <<"~", "c">> }

Prefixes == { Repeat("_", n) : n \in 0..MaxUnderscores } \cup { <<"m", "_">>, <<"m">> }

Suffixes == { Repeat("_", n) : n \in 0..MaxUnderscores }

MemberIds == { p \o s \o x : p \in Prefixes, s \in Stems, x \in Suffixes } \ { <<>> }

MemberKinds == {"Field", "Method", "Class"}

NamesInit ==
    /\ member \in [id : MemberIds, kind : MemberKinds]
    /\ getterResult = NotCalled
    /\ setterResult = NotCalled
    /\ baseResult = NotCalled
    /\ Idle({"names"})

BaseName ==
    /\ baseResult = NotCalled
    /\ baseResult' = baseName(member)
    /\ UNCHANGED <<member, getterResult, setterResult>>
    /\ Frame({"names"})

GetterName ==
    /\ getterResult = NotCalled
    /\ getterResult' = getterName(member)
    /\ UNCHANGED <<member, setterResult, baseResult>>
    /\ Frame({"names"})

SetterName ==
    /\ setterResult = NotCalled
    /\ setterResult' = setterName(member)
    /\ UNCHANGED <<member, getterResult, baseResult>>
    /\ Frame({"names"})

NamesNext == BaseName \/ GetterName \/ SetterName

SpecNames == NamesInit /\ [][NamesNext]_vars

m_count == <<"m", "_", "c", "o", "u", "n", "t">>
count == <<"c", "o", "u", "n", "t">>
getCount == <<"g", "e", "t", "C", "o", "u", "n", "t">>
setCount == <<"s", "e", "t", "C", "o", "u", "n", "t">>

\* C1 (as stated): a member variable "m_count" has the getter name "getCount"
\* and the setter name "setCount"; a member variable "count" has the getter
\* name "count".
C1_AsStated ==
    /\ (isMemberVariable(member) /\ member.id = m_count /\ getterResult # NotCalled)
           => getterResult = getCount
    /\ (isMemberVariable(member) /\ member.id = m_count /\ setterResult # NotCalled)
           => setterResult = setCount
    /\ (isMemberVariable(member) /\ member.id = count /\ getterResult # NotCalled)
           => getterResult = count

\* C1 (amended): a member variable "m_count" has the getter name "count" (its
\* base name: the decoration was stripped) and the setter name "setCount"; a
\* member variable "count" has the getter name "getCount" and the setter name
\* "setCount".
C1_AccessorNames ==
    /\ (isMemberVariable(member) /\ member.id = m_count /\ getterResult # NotCalled)
           => getterResult = count
    /\ (isMemberVariable(member) /\ member.id = m_count /\ setterResult # NotCalled)
           => setterResult = setCount
    /\ (isMemberVariable(member) /\ member.id = count /\ getterResult # NotCalled)
           => getterResult = getCount
    /\ (isMemberVariable(member) /\ member.id = count /\ setterResult # NotCalled)
           => setterResult = setCount

C1_Witness ==
    /\ isMemberVariable(member)
    /\ member.id = m_count
    /\ getterResult = count
    /\ setterResult = setCount

----------------------------------------------------------------------------
(* Regular expressions.  MatchLen(re, s, i) is the length of what regular   *)
(* expression re matches in text s at the 0-based index i, NoMatch when it  *)
(* does not match there.  Each body is a greedy repetition of single        *)
(* characters, so the match is the longest run of admissible characters     *)
(* after which the rest of the expression matches.                          *)

NoMatch == -1

SetMax(S) == CHOOSE x \in S : \A y \in S : y <= x

\* The character at the 0-based index i of s, "" outside the text.
CharAt(s, i) == IF i >= 0 /\ i < Len(s) THEN s[i + 1] ELSE ""

\* . of a JavaScript regular expression: any character but a line terminator.
IsDot(c) == c # "" /\ c # "\n"

\* (\*(?=\/)|[^*]) at index j: a star that a slash follows, or any character
\* that is no star.
BlockBodyChar(s, j) ==
    LET c == CharAt(s, j)
    IN c # "" /\ (c # "*" \/ CharAt(s, j + 1) = "/")

\* (>(?=>)|[^>]) at index j.
TemplateBodyChar(s, j) ==
    LET c == CharAt(s, j)
    IN c # "" /\ (c # ">" \/ CharAt(s, j + 1) = ">")

\* What must hold before index i for re to start there, and how many
\* characters the start itself consumes.
StartsAt(re, s, i) ==
    CASE re = "blockInterior" -> CharAt(s, i - 2) = "/" /\ CharAt(s, i - 1) = "*"
      [] re = "lineInterior"  -> CharAt(s, i - 2) = "/" /\ CharAt(s, i - 1) = "/"
      [] re = "doubleQuoted"  -> CharAt(s, i - 1) = "\""
      [] re = "singleQuoted"  -> CharAt(s, i - 1) = "'"
      [] re = "templateArgs"  -> CharAt(s, i - 1) = "<"
      [] re = "blockComment"  -> CharAt(s, i) = "/" /\ CharAt(s, i + 1) = "*"
      [] re = "lineComment"   -> CharAt(s, i) = "/" /\ CharAt(s, i + 1) = "/"

OpenLen(re) == IF re \in {"blockComment", "lineComment"} THEN 2 ELSE 0

CloseLen(re) == IF re = "blockComment" THEN 2 ELSE 0

\* Whether the repeated part of re admits the character at index j.
BodyChar(re, s, j) ==
    CASE re \in {"blockInterior", "blockComment"} -> BlockBodyChar(s, j)
      [] re = "templateArgs" -> TemplateBodyChar(s, j)
      [] OTHER -> IsDot(CharAt(s, j))

\* Whether what follows the repeated part of re matches at index j.
EndsAt(re, s, j) ==
    CASE re \in {"blockInterior", "blockComment"} ->
             CharAt(s, j) = "*" /\ CharAt(s, j + 1) = "/"
      [] re = "doubleQuoted" -> CharAt(s, j) = "\"" /\ CharAt(s, j - 1) # "\\"
      [] re = "singleQuoted" -> CharAt(s, j) = "'" /\ CharAt(s, j - 1) # "\\"
      [] re = "templateArgs" -> CharAt(s, j) = ">"
      [] OTHER -> TRUE

MatchLen(re, s, i) ==
    IF ~StartsAt(re, s, i) THEN NoMatch
    ELSE LET b == i + OpenLen(re)
             lens == { k \in 0..(Len(s) - b) :
                          /\ \A j \in b..(b + k - 1) : BodyChar(re, s, j)
                          /\ EndsAt(re, s, b + k) }
         IN IF lens = {} THEN NoMatch
            ELSE OpenLen(re) + SetMax(lens) + CloseLen(re)

----------------------------------------------------------------------------
(* Lexical masker *)

\* A replacer that yields the mask character once, whatever the match.
replacerOnce(match, maskChar) == IF match = <<>> THEN <<>> ELSE <<maskChar>>

\* const replacer = (match) => maskChar.repeat(match.length)
replacer(match, maskChar) == Repeat(maskChar, Len(match))

\* source.replace(re, replacer) for a global re: the matches are found left to
\* right in the text as it was, each search starting where the last match
\* ended (one further after an empty match); from is the 0-based index the
\* search is at.
RECURSIVE ReplaceFrom(_, _, _, _)
ReplaceFrom(re, s, from, maskChar) ==
    IF from > Len(s) THEN <<>>
    ELSE LET m == MatchLen(re, s, from)
         IN IF m > 0
            THEN replacer(SubSeq(s, from + 1, from + m), maskChar)
                     \o ReplaceFrom(re, s, from + m, maskChar)
            ELSE IF from = Len(s) THEN <<>>
            ELSE <<s[from + 1]>> \o ReplaceFrom(re, s, from + 1, maskChar)

ReplaceAll(re, s, maskChar) == ReplaceFrom(re, s, 0, maskChar)

\* maskUnimportantText(source, maskChar = ' ')
maskUnimportantText(src) ==
    LET s1 == ReplaceAll("blockInterior", src, " ")
        s2 == ReplaceAll("lineInterior", s1, " ")
        s3 == ReplaceAll("doubleQuoted", s2, " ")
        s4 == ReplaceAll("singleQuoted", s3, " ")
    IN ReplaceAll("templateArgs", s4, " ")

MaxSourceLen == 4

MaskAlphabet == {"/", "*", "\"", "'", "<", ">", "\\", "\n", "a"}

MaskInit ==
    /\ source \in SeqsUpTo(MaskAlphabet, MaxSourceLen)
    /\ masked = NotCalled
    /\ Idle({"mask"})

MaskUnimportantText ==
    /\ masked = NotCalled
    /\ masked' = maskUnimportantText(source)
    /\ UNCHANGED source
    /\ Frame({"mask"})

MaskNext == MaskUnimportantText

SpecMask == MaskInit /\ [][MaskNext]_vars

\* C5: the masked text is exactly as long as the text given, whatever the text
\* (unterminated comments, unbalanced quotes and angle brackets included).
C5_LengthPreserved ==
    masked # NotCalled => Len(masked) = Len(source)

\* A line comment that holds an unbalanced quote, masked to its end.
C5_Witness ==
    /\ source = <<"/", "/", "a", "\"">>
    /\ masked = <<"/", "/", " ", " ">>

----------------------------------------------------------------------------
(* stripDefaultValues *)

\* The number of whitespace characters of s from the 0-based index i on.
RECURSIVE SpaceRun(_, _)
SpaceRun(s, i) ==
    IF IsSpaceChar(CharAt(s, i)) THEN 1 + SpaceRun(s, i + 1) ELSE 0

\* parameters.replace(/[^\w\s]=/g, ''): a character that is neither a word
\* character nor whitespace goes together with the '=' after it.
RECURSIVE RemoveOperatorAssign(_, _)
RemoveOperatorAssign(s, i) ==
    IF i >= Len(s) THEN <<>>
    ELSE IF /\ ~IsWordChar(CharAt(s, i)) /\ ~IsSpaceChar(CharAt(s, i))
            /\ CharAt(s, i + 1) = "="
         THEN RemoveOperatorAssign(s, i + 2)
         ELSE <<s[i + 1]>> \o RemoveOperatorAssign(s, i + 1)

\* /\b\s*=\s*\b/ at index i: a word character stands before i, whitespace and
\* then '=' follow, and a word character follows the whitespace after the '='.
\* The length of the match, NoMatch when there is none.
AssignMatchLen(s, i) ==
    LET k == SpaceRun(s, i)
        m == SpaceRun(s, i + k + 1)
    IN IF /\ IsWordChar(CharAt(s, i - 1))
          /\ CharAt(s, i + k) = "="
          /\ IsWordChar(CharAt(s, i + k + 1 + m))
       THEN k + 1 + m ELSE NoMatch

\* parameters.replace(/\b\s*=\s*\b/g, '=')
RECURSIVE TightenAssign(_, _)
TightenAssign(s, i) ==
    IF i >= Len(s) THEN <<>>
    ELSE LET m == AssignMatchLen(s, i)
         IN IF m # NoMatch THEN <<"=">> \o TightenAssign(s, i + m)
            ELSE <<s[i + 1]>> \o TightenAssign(s, i + 1)

\* parameters.replace(/\(\)/g, '')
RECURSIVE RemoveEmptyParens(_, _)
RemoveEmptyParens(s, i) ==
    IF i >= Len(s) THEN <<>>
    ELSE IF CharAt(s, i) = "(" /\ CharAt(s, i + 1) = ")"
         THEN RemoveEmptyParens(s, i + 2)
         ELSE <<s[i + 1]>> \o RemoveEmptyParens(s, i + 1)

\* s.indexOf(c): the 0-based index of the first c in s, -1 when there is none.
IndexOf(s, c) ==
    IF \E i \in 1..Len(s) : s[i] = c
    THEN (CHOOSE i \in 1..Len(s) : s[i] = c /\ \A j \in 1..(i - 1) : s[j] # c) - 1
    ELSE -1

\* s.split(','): the pieces of s between its commas, one more than it has commas.
RECURSIVE Split(_, _)
Split(s, sep) ==
    LET i == IndexOf(s, sep)
    IN IF i = -1 THEN <<s>>
       ELSE <<SubSeq(s, 1, i)>> \o Split(SubSeq(s, i + 2, Len(s)), sep)

\* s.substring(a, b) for 0 <= a, 0 <= b: the ends are clamped to the text and
\* swapped when a > b.
Substring(s, a, b) ==
    LET lo == IF a < b THEN a ELSE b
        hi == IF a < b THEN b ELSE a
        clo == IF lo > Len(s) THEN Len(s) ELSE lo
        chi == IF hi > Len(s) THEN Len(s) ELSE hi
    IN SubSeq(s, clo + 1, chi)

\* The loop of stripDefaultValues over maskedParameters from index k on.
RECURSIVE StripLoop(_, _, _, _)
StripLoop(params, maskedParameters, k, charPos) ==
    IF k > Len(maskedParameters) THEN <<>>
    ELSE LET maskedParameter == maskedParameters[k]
             eq == IndexOf(maskedParameter, "=")
             piece == IF eq # -1
                      THEN Substring(params, charPos, charPos + eq)
                      ELSE Substring(params, charPos, charPos + Len(maskedParameter))
         IN piece \o <<",">>
                \o StripLoop(params, maskedParameters, k + 1,
                             charPos + Len(maskedParameter) + 1)

stripDefaultValues(params) ==
    LET p1 == RemoveOperatorAssign(params, 0)
        p2 == TightenAssign(p1, 0)
        p3 == RemoveEmptyParens(p2, 0)
        maskedParameters == Split(maskUnimportantText(p3), ",")
        strippedParameters == StripLoop(p3, maskedParameters, 1, 0)
    IN Substring(strippedParameters, 0, Len(strippedParameters) - 1)

MaxParamLen == 5

ParamAlphabet == {"a", " ", "=", ",", "(", ")"}

\* "int a = 1, int b"
IntAIntB == <<"i","n","t"," ","a"," ","="," ","1",","," ","i","n","t"," ","b">>
\* "Widget w = Widget()"
WidgetW == <<"W","i","d","g","e","t"," ","w"," ","="," ",
             "W","i","d","g","e","t","(",")">>
\* "int a = f(1, 2), int b"
IntAFIntB == <<"i","n","t"," ","a"," ","="," ","f","(","1",","," ","2",")",
               ","," ","i","n","t"," ","b">>

ParamExamples == {IntAIntB, WidgetW, IntAFIntB}

StripInit ==
    /\ parameters \in SeqsUpTo(ParamAlphabet, MaxParamLen) \cup ParamExamples
    /\ stripped = NotCalled
    /\ Idle({"strip"})

StripDefaultValues ==
    /\ stripped = NotCalled
    /\ stripped' = stripDefaultValues(parameters)
    /\ UNCHANGED parameters
    /\ Frame({"strip"})

StripNext == StripDefaultValues

SpecStrip == StripInit /\ [][StripNext]_vars

\* What C10 speaks of: the parameters of a list are its pieces between the
\* commas that stand outside every pair of parentheses, and a parameter's
\* default value starts at its first '=' outside every pair of parentheses.
RECURSIVE DepthBefore(_, _)
DepthBefore(s, i) ==
    IF i <= 1 THEN 0
    ELSE LET d == DepthBefore(s, i - 1)
         IN IF s[i - 1] = "(" THEN d + 1
            ELSE IF s[i - 1] = ")" /\ d > 0 THEN d - 1
            ELSE d

BalancedParens(s) ==
    /\ DepthBefore(s, Len(s) + 1) = 0
    /\ \A i \in 1..Len(s) : s[i] = ")" => DepthBefore(s, i) > 0

TopLevel(s, c) == { i \in 1..Len(s) : s[i] = c /\ DepthBefore(s, i) = 0 }

RECURSIVE TopLevelSplit(_)
TopLevelSplit(s) ==
    LET commas == TopLevel(s, ",")
    IN IF commas = {} THEN <<s>>
       ELSE LET i == CHOOSE x \in commas : \A y \in commas : x <= y
            IN <<SubSeq(s, 1, i - 1)>> \o TopLevelSplit(SubSeq(s, i + 1, Len(s)))

BeforeDefault(param) ==
    LET eqs == TopLevel(param, "=")
    IN IF eqs = {} THEN param
       ELSE SubSeq(param, 1, (CHOOSE x \in eqs : \A y \in eqs : x <= y) - 1)

RECURSIVE Trim(_)
Trim(s) ==
    IF s # <<>> /\ IsSpaceChar(Head(s)) THEN Trim(Tail(s))
    ELSE IF s # <<>> /\ IsSpaceChar(s[Len(s)]) THEN Trim(SubSeq(s, 1, Len(s) - 1))
    ELSE s

\* A parameter list as C++ writes one: the parentheses balance, and every
\* parameter starts with a word and has, after a top-level '=', a default value.
WellFormedParams(s) ==
    /\ BalancedParens(s)
    /\ s # <<>> =>
           \A k \in 1..Len(TopLevelSplit(s)) :
               LET param == TopLevelSplit(s)[k]
                   decl == Trim(BeforeDefault(param))
               IN /\ decl # <<>>
                  /\ IsWordChar(Head(decl))
                  /\ TopLevel(param, "=") # {} =>
                         Trim(SubSeq(param, Len(BeforeDefault(param)) + 2, Len(param))) # <<>>

\* C10: for a well-formed parameter list the result has the parameters of the
\* list, in their order, each cut at its top-level '=' (up to whitespace at
\* the cut); "int a = 1, int b" gives "int a, int b", "Widget w = Widget()"
\* gives "Widget w", the empty list the empty text.
C10_AsStated ==
    stripped # NotCalled =>
        /\ WellFormedParams(parameters) =>
               LET given == TopLevelSplit(parameters)
                   got == TopLevelSplit(stripped)
               IN /\ Len(got) = Len(given)
                  /\ \A k \in 1..Len(given) : Trim(got[k]) = Trim(BeforeDefault(given[k]))
        /\ parameters = IntAIntB =>
               stripped = <<"i","n","t"," ","a",","," ","i","n","t"," ","b">>
        /\ parameters = WidgetW => stripped = <<"W","i","d","g","e","t"," ","w">>
        /\ parameters = <<>> => stripped = <<>>

\* The three results C10 gives as examples.
C10_Examples ==
    stripped # NotCalled =>
        /\ parameters = IntAIntB =>
               stripped = <<"i","n","t"," ","a",","," ","i","n","t"," ","b">>
        /\ parameters = WidgetW => stripped = <<"W","i","d","g","e","t"," ","w">>
        /\ parameters = <<>> => stripped = <<>>

----------------------------------------------------------------------------
(* SourceDocument.findPositionForNewHeaderGuard *)

\* document.positionAt(offset): the line is the number of line breaks before
\* the offset, the character the distance from the last of them.
PositionAt(text, offset) ==
    LET off == IF offset > Len(text) THEN Len(text) ELSE offset
        breaks == { i \in 1..off : text[i] = "\n" }
        lineStart == IF breaks = {} THEN 0 ELSE SetMax(breaks)
    IN [line |-> Cardinality(breaks), character |-> off - lineStart]

\* maskedText.match(/\S/)?.index: the 0-based index of the first character that
\* is no whitespace, -1 when there is none.
FirstNonSpace(s) ==
    IF \E i \in 1..Len(s) : ~IsSpaceChar(s[i])
    THEN (CHOOSE i \in 1..Len(s) :
              ~IsSpaceChar(s[i]) /\ \A j \in 1..(i - 1) : IsSpaceChar(s[j])) - 1
    ELSE -1

\* text.trimEnd()
RECURSIVE TrimEnd(_)
TrimEnd(s) ==
    IF s # <<>> /\ IsSpaceChar(s[Len(s)]) THEN TrimEnd(SubSeq(s, 1, Len(s) - 1)) ELSE s

findPositionForNewHeaderGuard(text) ==
    LET maskedText == ReplaceAll("lineComment", ReplaceAll("blockComment", text, " "), " ")
        index == FirstNonSpace(maskedText)
        endTrimmedTextLength == Len(TrimEnd(text))
    IN IF index # -1
       THEN [value |-> PositionAt(text, index),
             before |-> "true", after |-> "unset", nextTo |-> "unset"]
       ELSE [value |-> PositionAt(text, endTrimmedTextLength),
             before |-> "unset",
             after |-> IF endTrimmedTextLength # 0 THEN "true" ELSE "false",
             nextTo |-> "unset"]

MaxGuardLen == 6

GuardAlphabet == {"/", "*", "x", " ", "\n"}

GuardInit ==
    /\ guardText \in SeqsUpTo(GuardAlphabet, MaxGuardLen)
    /\ guardPos = NoPosition
    /\ Idle({"guard"})

FindPositionForNewHeaderGuard ==
    /\ guardPos = NoPosition
    /\ guardPos' = findPositionForNewHeaderGuard(guardText)
    /\ UNCHANGED guardText
    /\ Frame({"guard"})

GuardNext == FindPositionForNewHeaderGuard

SpecGuard == GuardInit /\ [][GuardNext]_vars

\* What C9 speaks of: the 0-based indices of the characters of s that stand in
\* a block comment or a line comment of C++, the comment's delimiters
\* included; i is the index the scan is at, mode what it is in.
RECURSIVE InComment(_, _, _)
InComment(s, i, mode) ==
    IF i >= Len(s) THEN {}
    ELSE CASE mode = "code" ->
                IF CharAt(s, i) = "/" /\ CharAt(s, i + 1) = "*"
                THEN {i, i + 1} \cup InComment(s, i + 2, "block")
                ELSE IF CharAt(s, i) = "/" /\ CharAt(s, i + 1) = "/"
                THEN {i, i + 1} \cup InComment(s, i + 2, "line")
                ELSE InComment(s, i + 1, "code")
           [] mode = "block" ->
                IF CharAt(s, i) = "*" /\ CharAt(s, i + 1) = "/"
                THEN {i, i + 1} \cup InComment(s, i + 2, "code")
                ELSE {i} \cup InComment(s, i + 1, "block")
           [] mode = "line" ->
                IF CharAt(s, i) = "\n" THEN InComment(s, i + 1, "code")
                ELSE {i} \cup InComment(s, i + 1, "line")

\* Whether every block comment of s is closed.
RECURSIVE CommentsClosed(_, _, _)
CommentsClosed(s, i, mode) ==
    IF i >= Len(s) THEN mode # "block"
    ELSE CASE mode = "code" ->
                IF CharAt(s, i) = "/" /\ CharAt(s, i + 1) = "*"
                THEN CommentsClosed(s, i + 2, "block")
                ELSE IF CharAt(s, i) = "/" /\ CharAt(s, i + 1) = "/"
                THEN CommentsClosed(s, i + 2, "line")
                ELSE CommentsClosed(s, i + 1, "code")
           [] mode = "block" ->
                IF CharAt(s, i) = "*" /\ CharAt(s, i + 1) = "/"
                THEN CommentsClosed(s, i + 2, "code")
                ELSE CommentsClosed(s, i + 1, "block")
           [] mode = "line" ->
                IF CharAt(s, i) = "\n" THEN CommentsClosed(s, i + 1, "code")
                ELSE CommentsClosed(s, i + 1, "line")

\* The 0-based indices of the characters that are neither whitespace nor in a
\* comment.
CodeIndices(s) ==
    { i \in 0..(Len(s) - 1) : ~IsSpaceChar(CharAt(s, i)) } \ InComment(s, 0, "code")

\* C9: in a file whose block comments are all closed the position is before
\* the first character that is neither whitespace nor in a comment; in a file
\* of comments and whitespace (at least one comment) it is after the
\* end-trimmed text; in an empty file it is offset 0 with after false and
\* before unset.
C9_AsStated ==
    (guardPos # NoPosition /\ CommentsClosed(guardText, 0, "code")) =>
        LET code == CodeIndices(guardText)
        IN /\ code # {} =>
                 /\ guardPos.value =
                        PositionAt(guardText, CHOOSE i \in code : \A j \in code : i <= j)
                 /\ guardPos.before = "true"
           /\ (code = {} /\ TrimEnd(guardText) # <<>>) =>
                 /\ guardPos.value = PositionAt(guardText, Len(TrimEnd(guardText)))
                 /\ guardPos.after = "true"
           /\ guardText = <<>> =>
                 /\ guardPos.value = [line |-> 0, character |-> 0]
                 /\ guardPos.after = "false"
                 /\ guardPos.before = "unset"

----------------------------------------------------------------------------
(* SourceSymbol and CSymbol: construction of the symbol tree.               *)
(*                                                                          *)
(* heap[id] is the object with identity id: [cls, name, kind, range,        *)
(* selectionRange, parent, children], parent an id or 0 (undefined),        *)
(* children a sequence of ids.  A constructor's argument is a raw           *)
(* vscode.DocumentSymbol, [tag |-> "raw", v |-> the symbol, with its        *)
(* children nested], or an object of the heap, [tag |-> "obj", v |-> id].   *)

Pos(l, c) == [line |-> l, character |-> c]

\* vscode.Position.isAfter
isAfter(a, b) ==
    a.line > b.line \/ (a.line = b.line /\ a.character > b.character)

\* A comparator that orders the symbols by their start, but descending.
startComparatorReversed(a, b) == IF isAfter(b.range.start, a.range.start) THEN 1 ELSE -1

\* (a, b) => a.range.start.isAfter(b.range.start) ? 1 : -1
startComparator(a, b) == IF isAfter(a.range.start, b.range.start) THEN 1 ELSE -1

\* Body(v), with v evaluated once: a const declaration of the source.
With(v, Body(_)) == CHOOSE out \in { Body(x) : x \in {v} } : TRUE

\* Array.prototype.sort(startComparator) as an insertion sort over entries
\* [sym, key]: sym the symbol compared (a raw symbol, or an object read from
\* the heap), key what the array holds (the raw symbol, or the object's id).
\* An entry goes before the first one it does not compare greater than.  The
\* comparator never answers 0, so the order of symbols with equal starts is
\* the engine's; that of the starts is not.
RECURSIVE InsertByStart(_, _)
InsertByStart(e, done) ==
    IF done = <<>> THEN <<e>>
    ELSE IF startComparator(e.sym, Head(done).sym) < 0 THEN <<e>> \o done
    ELSE <<Head(done)>> \o InsertByStart(e, Tail(done))

RECURSIVE SortByStartFrom(_, _, _)
SortByStartFrom(entries, k, done) ==
    IF k > Len(entries) THEN [i \in 1..Len(done) |-> done[i].key]
    ELSE With(InsertByStart(entries[k], done),
              LAMBDA d : SortByStartFrom(entries, k + 1, d))

\* docSymbol.children.sort(...) for raw children.
SortRaw(children) ==
    With([i \in 1..Len(children) |-> [sym |-> children[i], key |-> children[i]]],
         LAMBDA entries : SortByStartFrom(entries, 1, <<>>))

\* docSymbol.children.sort(...) for the children (ids) of an object of heap h.
SortIds(h, ids) ==
    With([i \in 1..Len(ids) |-> [sym |-> h[ids[i]], key |-> ids[i]]],
         LAMBDA entries : SortByStartFrom(entries, 1, <<>>))

\* A raw symbol after a constructor has sorted its children in place, and
\* those of its children, and so on.
RECURSIVE SortedInPlace(_)
SortedInPlace(raw) ==
    With(SortRaw(raw.children),
         LAMBDA kids : [raw EXCEPT !.children =
                            [i \in 1..Len(kids) |-> SortedInPlace(kids[i])]])

Fields(h, sym) == IF sym.tag = "raw" THEN sym.v ELSE h[sym.v]

\* The children of the constructor's argument as constructor arguments:
\* docSymbol.children after docSymbol.children.sort(...).
ChildArgs(h, sym) ==
    IF sym.tag = "raw"
    THEN With(SortRaw(sym.v.children),
              LAMBDA kids : [i \in 1..Len(kids) |-> [tag |-> "raw", v |-> kids[i]]])
    ELSE [i \in 1..Len(h[sym.v].children) |-> [tag |-> "obj", v |-> h[sym.v].children[i]]]

RECURSIVE NewSourceSymbol(_, _, _, _)
RECURSIVE ConvertChildren(_, _, _, _)

\* docSymbol.children.forEach(child => convertedChildren.push(
\*     new SourceSymbol(child, uri, this))), from the k-th child on.
ConvertChildren(h, args, k, this) ==
    IF k > Len(args) THEN [h |-> h, ids |-> <<>>]
    ELSE With(NewSourceSymbol(h, args[k], this, "SourceSymbol"), LAMBDA c :
         With(ConvertChildren(c.h, args, k + 1, this), LAMBDA rest :
            [h |-> rest.h, ids |-> <<c.id>> \o rest.ids]))

\* new SourceSymbol(docSymbol, uri, parent), and super(symbol, document.uri,
\* parent) of a CSymbol (cls says which object is under construction): the
\* object is allocated, docSymbol.children is sorted in place, the children are
\* converted and become this.children.
NewSourceSymbol(h, sym, parent, cls) ==
    With([cls |-> cls, name |-> Fields(h, sym).name, kind |-> Fields(h, sym).kind,
          range |-> Fields(h, sym).range,
          selectionRange |-> Fields(h, sym).selectionRange,
          parent |-> parent, children |-> <<>>], LAMBDA this :
    With(IF sym.tag = "obj"
         THEN [Append(h, this) EXCEPT ![sym.v].children = SortIds(h, h[sym.v].children)]
         ELSE Append(h, this), LAMBDA h2 :
    With(ChildArgs(h2, sym), LAMBDA args :
    With(ConvertChildren(h2, args, 1, Len(h2)), LAMBDA r :
        [h |-> [r.h EXCEPT ![Len(h2)].children = r.ids], id |-> Len(h2)]))))

RECURSIVE NewCSymbol(_, _, _)
RECURSIVE ConvertCChildren(_, _, _, _)

\* symbol.children.forEach(child => convertedChildren.push(
\*     new CSymbol(child, document, this))), from the k-th child on.
ConvertCChildren(h, ids, k, this) ==
    IF k > Len(ids) THEN [h |-> h, ids |-> <<>>]
    ELSE With(NewCSymbol(h, [tag |-> "obj", v |-> ids[k]], this), LAMBDA c :
         With(ConvertCChildren(c.h, ids, k + 1, this), LAMBDA rest :
            [h |-> rest.h, ids |-> <<c.id>> \o rest.ids]))

\* A CSymbol constructor that re-wraps the parent's parent, where there is
\* one, as this.parent.
parentToWrapSkipping(h, sym, parent) ==
    IF sym.tag = "obj" /\ h[sym.v].parent # 0 /\ parent = 0
    THEN IF h[h[sym.v].parent].parent # 0 THEN h[h[sym.v].parent].parent
         ELSE h[sym.v].parent
    ELSE 0

\* What the CSymbol constructor re-wraps as this.parent: symbol.parent when
\* symbol is a SourceSymbol that has one and no parent was passed, else
\* nothing (0).
parentToWrap(h, sym, parent) ==
    IF sym.tag = "obj" /\ h[sym.v].parent # 0 /\ parent = 0 THEN h[sym.v].parent ELSE 0

\* new CSymbol(symbol, document, parent); parent = 0 when none is passed.
\* s is this after super(), p this.parent, src the SourceSymbol whose
\* children are re-wrapped: symbol when it is a SourceSymbol, else
\* new SourceSymbol(symbol, document.uri, parent).
NewCSymbol(h, sym, parent) ==
    With(NewSourceSymbol(h, sym, parent, "CSymbol"), LAMBDA s :
    With(parentToWrap(s.h, sym, parent), LAMBDA up :
    With(IF up # 0 THEN NewCSymbol(s.h, [tag |-> "obj", v |-> up], 0)
         ELSE [h |-> s.h, id |-> parent], LAMBDA p :
    With(IF sym.tag = "obj" THEN [tag |-> "obj", v |-> sym.v]
         ELSE [tag |-> "raw", v |-> SortedInPlace(sym.v)], LAMBDA again :
    With(IF sym.tag = "obj" THEN [h |-> p.h, id |-> sym.v]
         ELSE NewSourceSymbol(p.h, again, parent, "SourceSymbol"), LAMBDA src :
    With(ConvertCChildren(src.h, src.h[src.id].children, 1, s.id), LAMBDA r :
        [h |-> [r.h EXCEPT ![s.id].parent = p.id, ![s.id].children = r.ids],
         id |-> s.id]))))))

\* documentSymbols.forEach(newSymbol => this.symbols?.push(
\*     new SourceSymbol(newSymbol, this.uri))), from the k-th symbol on.
RECURSIVE ConvertRoots(_, _, _)
ConvertRoots(h, raws, k) ==
    IF k > Len(raws) THEN [h |-> h, ids |-> <<>>]
    ELSE With([tag |-> "raw", v |-> raws[k]], LAMBDA sym :
         With(NewSourceSymbol(h, sym, 0, "SourceSymbol"), LAMBDA c :
         With(ConvertRoots(c.h, raws, k + 1), LAMBDA rest :
            [h |-> rest.h, ids |-> <<c.id>> \o rest.ids])))

\* The symbol provider's answer: a list of raw symbols, or nothing.
Answer(documentSymbols) == [present |-> TRUE, list |-> documentSymbols]

Absent == [present |-> FALSE, list |-> <<>>]

\* SourceFile.executeSourceSymbolProvider() from the provider's answer on:
\* [h, symbols, result], the heap, this.symbols and the value returned.  An
\* absent answer returns [] and leaves this.symbols as it was.
executeSourceSymbolProvider(h, syms, documentSymbols) ==
    IF ~documentSymbols.present
    THEN [h |-> h, symbols |-> syms, result |-> <<>>]
    ELSE With(SortRaw(documentSymbols.list), LAMBDA sorted :
         With(ConvertRoots(h, sorted, 1), LAMBDA r :
            [h |-> r.h, symbols |-> r.ids, result |-> r.ids]))

\* The raw symbols the provider answers with: a list of symbols, the first
\* with children, the first of those with children of its own, each list in
\* any order of starts.
MaxSiblings == 3
MaxGrandchildren == 1

Starts == { Pos(0, 1), Pos(1, 0) }

RawSymbol(start, level, kids) ==
    [name |-> <<level>>, kind |-> "Class",
     range |-> [start |-> start, end |-> Pos(start.line + 1, start.character)],
     selectionRange |-> [start |-> start, end |-> Pos(start.line, start.character + 1)],
     children |-> kids]

RawList(starts, level, kidsOfFirst) ==
    [i \in 1..Len(starts) |->
        RawSymbol(starts[i], level, IF i = 1 THEN kidsOfFirst ELSE <<>>)]

RawForests ==
    { RawList(tops, "t", RawList(kids, "c", RawList(grands, "g", <<>>))) :
        tops \in SeqsUpTo(Starts, MaxSiblings),
        kids \in SeqsUpTo(Starts, MaxSiblings),
        grands \in SeqsUpTo(Starts, MaxGrandchildren) }


\* The ids of the objects of the tree under the roots ids.
RECURSIVE TreeIds(_, _)
TreeIds(h, ids) ==
    IF ids = <<>> THEN {}
    ELSE {Head(ids)} \cup TreeIds(h, h[Head(ids)].children) \cup TreeIds(h, Tail(ids))

TreeInit == Idle({})

\* An explicit call of executeSourceSymbolProvider(), the provider answering
\* documentSymbols.
TreeExecuteProvider ==
    /\ treePc = "fresh"
    /\ \E documentSymbols \in { Answer(f) : f \in RawForests } \cup {Absent} :
       \E r \in {executeSourceSymbolProvider(heap, symbols, documentSymbols)} :
             /\ heap' = r.h
             /\ symbols' = r.symbols
             /\ returned' = r.result
    /\ treePc' = "cached"
    /\ UNCHANGED wrapped
    /\ Frame({"file", "tree"})

\* new CSymbol(sourceSymbol, this.document) of SourceDocument.getSymbol and
\* SourceDocument.findMatchingSymbol, for a symbol of the cached tree.
TreeWrap ==
    /\ treePc = "cached"
    /\ symbols # Undefined
    /\ \E id \in TreeIds(heap, symbols) :
       \E r \in {NewCSymbol(heap, [tag |-> "obj", v |-> id], 0)} :
             /\ heap' = r.h
             /\ wrapped' = r.id
    /\ treePc' = "wrapped"
    /\ UNCHANGED <<symbols, returned>>
    /\ Frame({"file", "tree"})

\* new CSymbol(this.children[i], this.document, this) of
\* findPositionForNewMethod, this being the CSymbol a query returned.
TreeRewrapChild ==
    /\ treePc = "wrapped"
    /\ \E i \in 1..Len(heap[wrapped].children) :
       \E r \in {NewCSymbol(heap, [tag |-> "obj", v |-> heap[wrapped].children[i]], wrapped)} :
             /\ heap' = r.h
             /\ wrapped' = r.id
    /\ treePc' = "rewrapped"
    /\ UNCHANGED <<symbols, returned>>
    /\ Frame({"file", "tree"})

\* new CSymbol(documentSymbol, document) for a raw symbol of the provider.
TreeWrapRaw ==
    /\ treePc = "fresh"
    /\ \E raw \in { f[1] : f \in RawForests \ {<<>>} } :
       \E r \in {NewCSymbol(heap, [tag |-> "raw", v |-> raw], 0)} :
             /\ heap' = r.h
             /\ wrapped' = r.id
    /\ treePc' = "rewrapped"
    /\ UNCHANGED <<symbols, returned>>
    /\ Frame({"file", "tree"})

TreeNext == TreeExecuteProvider \/ TreeWrap \/ TreeRewrapChild \/ TreeWrapRaw

SpecTree == TreeInit /\ [][TreeNext]_vars

SortedByStart(h, ids) ==
    \A i \in 1..(Len(ids) - 1) : ~isAfter(h[ids[i]].range.start, h[ids[i + 1]].range.start)

\* C2: the roots executeSourceSymbolProvider returned and cached, and the
\* children of every SourceSymbol and CSymbol constructed, are in ascending
\* order of their range's start.
C2_LevelsSorted ==
    /\ SortedByStart(heap, returned)
    /\ symbols # Undefined => SortedByStart(heap, symbols)
    /\ \A id \in 1..Len(heap) : SortedByStart(heap, heap[id].children)

\* A tree of three levels whose provider listed a later symbol first, and a
\* CSymbol constructed from one of its symbols.
C2_Witness ==
    /\ treePc = "wrapped"
    /\ Len(symbols) >= 2
    /\ \E id \in 1..Len(heap) :
          /\ heap[id].cls = "CSymbol"
          /\ Len(heap[id].children) >= 2
          /\ isAfter(heap[heap[id].children[2]].range.start,
                     heap[heap[id].children[1]].range.start)
          /\ heap[heap[id].children[1]].children # <<>>

\* C3: every constructed symbol that has a parent is range-equal to one of
\* that parent's children.
C3_ParentHoldsChild ==
    \A id \in 1..Len(heap) :
        heap[id].parent # 0 =>
            \E k \in 1..Len(heap[heap[id].parent].children) :
                heap[heap[heap[id].parent].children[k]].range = heap[id].range

\* A CSymbol re-wrapped from a SourceSymbol with no parent argument, and one
\* re-wrapped with a parent argument, each with a parent.
C3_Witness ==
    /\ treePc = "rewrapped"
    /\ heap[wrapped].cls = "CSymbol"
    /\ heap[wrapped].parent # 0
    /\ heap[heap[wrapped].parent].cls = "CSymbol"
    /\ heap[heap[wrapped].parent].parent # 0

----------------------------------------------------------------------------
(* SourceFile.symbols as a cache: queries of one file that are in flight    *)
(* together.  The extension host runs one piece of code at a time, and a    *)
(* query gives way only at its await of the provider: one action runs a     *)
(* query up to there, one runs it from the provider's answer to its end.    *)

Queries == {1, 2}

MaxQueries == 3

\* What the provider answers: nothing, no symbol, one symbol, two symbols the
\* later of which comes first and has a child.
CacheAnswers ==
    { Absent, Answer(<<>>),
      Answer(RawList(<<Pos(0, 1)>>, "t", <<>>)),
      Answer(RawList(<<Pos(1, 0), Pos(0, 1)>>, "t", RawList(<<Pos(1, 0)>>, "c", <<>>))) }

CacheInit == Idle({})

\* getSymbol, findMatchingSymbol, hasHeaderGuard or a position finder up to
\* its await: if (!this.symbols) { ... await this.executeSourceSymbolProvider()
\* }, the provider being invoked before executeSourceSymbolProvider awaits it.
LazyQueryStart(q) ==
    /\ qpc[q] = "idle"
    /\ started < MaxQueries
    /\ started' = started + 1
    /\ qkind' = [qkind EXCEPT ![q] = "lazy"]
    /\ IF symbols = Undefined
       THEN /\ providerCalls' = providerCalls + 1
            /\ qpc' = [qpc EXCEPT ![q] = "awaiting"]
       ELSE /\ providerCalls' = providerCalls
            /\ qpc' = [qpc EXCEPT ![q] = "done"]
    /\ UNCHANGED <<fileVars, explicitCalls>>
    /\ Frame({"file", "cache"})

\* A call of executeSourceSymbolProvider() from outside the class, up to its
\* await.
ExplicitQueryStart(q) ==
    /\ qpc[q] = "idle"
    /\ started < MaxQueries
    /\ started' = started + 1
    /\ qkind' = [qkind EXCEPT ![q] = "explicit"]
    /\ providerCalls' = providerCalls + 1
    /\ explicitCalls' = explicitCalls + 1
    /\ qpc' = [qpc EXCEPT ![q] = "awaiting"]
    /\ UNCHANGED fileVars
    /\ Frame({"file", "cache"})

\* The provider answers query q: executeSourceSymbolProvider runs to its
\* return, and a lazy query assigns what it returned to this.symbols.
ProviderAnswers(q) ==
    /\ qpc[q] = "awaiting"
    /\ \E documentSymbols \in CacheAnswers :
       \E r \in {executeSourceSymbolProvider(heap, symbols, documentSymbols)} :
             /\ heap' = r.h
             /\ returned' = r.result
             /\ symbols' = IF qkind[q] = "lazy" THEN r.result ELSE r.symbols
    /\ qpc' = [qpc EXCEPT ![q] = "done"]
    /\ UNCHANGED <<qkind, providerCalls, explicitCalls, started>>
    /\ Frame({"file", "cache"})

\* The query's caller takes the result; q can carry the next query.
QueryEnds(q) ==
    /\ qpc[q] = "done"
    /\ qpc' = [qpc EXCEPT ![q] = "idle"]
    /\ UNCHANGED <<fileVars, qkind, providerCalls, explicitCalls, started>>
    /\ Frame({"file", "cache"})

CacheNext ==
    \E q \in Queries :
        \/ LazyQueryStart(q)
        \/ ExplicitQueryStart(q)
        \/ ProviderAnswers(q)
        \/ QueryEnds(q)

SpecCache == CacheInit /\ [][CacheNext]_vars

\* C4: with no explicit call of executeSourceSymbolProvider, the provider is
\* invoked at most once, whatever queries are started and however they
\* overlap.
C4_AsStated == explicitCalls = 0 => providerCalls <= 1

\* C18: once a call of executeSourceSymbolProvider has completed, the cached
\* tree this.symbols is the tree the last completed call returned.
C18_AsStated == returned # Undefined => symbols = returned

----------------------------------------------------------------------------
(* SourceDocument.findPositionForNewInclude.  The document is the sequence  *)
(* of its lines' texts; line i of the program is lines[i + 1].              *)

NoPos == Pos(-1, -1)

\* A vscode.Range that is undefined.
NoRange == [start |-> NoPos, end |-> NoPos]

\* /<.+>/ and /".+"/ somewhere in s: open, at least one character, close.
HasDelimited(s, open, close) ==
    \E i \in 1..Len(s) : \E j \in (i + 2)..Len(s) : s[i] = open /\ s[j] = close

IncludeWord == <<"#", "i", "n", "c", "l", "u", "d", "e">>

\* s.match(/^#include\s*(<.+>)|(".+")$/): the alternation is between
\* ^#include\s*(<.+>), anchored at the start only, and (".+")$, anchored at
\* the end only.
MatchesIncludeLine(s) ==
    \/ /\ Len(s) >= Len(IncludeWord)
       /\ SubSeq(s, 1, Len(IncludeWord)) = IncludeWord
       /\ \E i \in (Len(IncludeWord) + 1)..Len(s) :
             /\ \A j \in (Len(IncludeWord) + 1)..(i - 1) : IsSpaceChar(s[j])
             /\ s[i] = "<"
             /\ \E j \in (i + 2)..Len(s) : s[j] = ">"
    \/ /\ s # <<>>
       /\ s[Len(s)] = "\""
       /\ \E i \in 1..(Len(s) - 2) : s[i] = "\""

\* TextLine.range.start and TextLine.range.end of line i.
LineStart(i) == Pos(i, 0)

LineEnd(lines, i) == Pos(i, Len(lines[i + 1]))

\* TextLine.isEmptyOrWhitespace
isEmptyOrWhitespace(s) == \A i \in 1..Len(s) : IsSpaceChar(s[i])

\* largestBlock(line, start, largest) for line i.  r > largest compares two
\* Range objects, neither of which converts to a number or to a string of its
\* own, so it is false: the block recorded first stays.
largestBlock(i, start, largest) ==
    IF largest = NoRange THEN [start |-> start, end |-> LineStart(i)] ELSE largest

\* One pass of the loop of findPositionForNewInclude over line i, st being
\* systemIncludeStart, projectIncludeStart, largestSystemIncludeBlock and
\* largestProjectIncludeBlock.
ScanLine(st, i, text) ==
    IF ~MatchesIncludeLine(Trim(text))
    THEN IF st.systemIncludeStart # NoPos
         THEN [st EXCEPT !.largestSystemIncludeBlock =
                             largestBlock(i, st.systemIncludeStart, @),
                         !.systemIncludeStart = NoPos]
         ELSE IF st.projectIncludeStart # NoPos
         THEN [st EXCEPT !.largestProjectIncludeBlock =
                             largestBlock(i, st.projectIncludeStart, @),
                         !.projectIncludeStart = NoPos]
         ELSE st
    ELSE IF HasDelimited(text, "<", ">")
    THEN [st EXCEPT !.systemIncludeStart = IF @ = NoPos THEN LineStart(i) ELSE @,
                    !.largestProjectIncludeBlock =
                        IF st.projectIncludeStart # NoPos
                        THEN largestBlock(i, st.projectIncludeStart, @) ELSE @,
                    !.projectIncludeStart = NoPos]
    ELSE IF HasDelimited(text, "\"", "\"")
    THEN [st EXCEPT !.projectIncludeStart = IF @ = NoPos THEN LineStart(i) ELSE @,
                    !.largestSystemIncludeBlock =
                        IF st.systemIncludeStart # NoPos
                        THEN largestBlock(i, st.systemIncludeStart, @) ELSE @,
                    !.systemIncludeStart = NoPos]
    ELSE st

RECURSIVE ScanFrom(_, _, _)
ScanFrom(st, i, lines) ==
    IF i >= Len(lines) THEN st
    ELSE With(ScanLine(st, i, lines[i + 1]), LAMBDA next : ScanFrom(next, i + 1, lines))

ScanIncludes(lines) ==
    ScanFrom([systemIncludeStart |-> NoPos, projectIncludeStart |-> NoPos,
              largestSystemIncludeBlock |-> NoRange,
              largestProjectIncludeBlock |-> NoRange], 0, lines)

\* The include blocks found as anchors; NoPos for one that is undefined.
BlockAnchors(st) ==
    LET sys == st.largestSystemIncludeBlock
        proj == st.largestProjectIncludeBlock
    IN [system |-> IF sys # NoRange THEN sys.end
                   ELSE IF proj # NoRange THEN proj.end ELSE NoPos,
        project |-> IF proj # NoRange THEN proj.end
                    ELSE IF sys # NoRange THEN sys.end ELSE NoPos]

\* for (let i = startLineNum; i >= 0; --i): the end of the last line at or
\* above startLineNum that is not blank, else (0, 0).
RECURSIVE FallbackFrom(_, _)
FallbackFrom(lines, i) ==
    IF i < 0 THEN [system |-> Pos(0, 0), project |-> Pos(0, 0)]
    ELSE IF ~isEmptyOrWhitespace(lines[i + 1])
    THEN [system |-> LineEnd(lines, i), project |-> LineEnd(lines, i)]
    ELSE FallbackFrom(lines, i - 1)

\* findPositionForNewInclude() on a document of these lines, syms being
\* this.symbols when the fallback reads it (h the heap they are in).
findPositionForNewInclude(lines, h, syms) ==
    With(BlockAnchors(ScanIncludes(lines)), LAMBDA found :
        IF found.system # NoPos /\ found.project # NoPos THEN found
        ELSE FallbackFrom(lines, IF Len(syms) = 0 THEN Len(lines) - 1
                                 ELSE h[syms[1]].range.start.line))

MaxLines == 5

SystemInclude == IncludeWord \o <<" ", "<", "a", ">">>

ProjectInclude == IncludeWord \o <<" ", "\"", "c", "\"">>

\* The lines a document is made of: the two includes, "int x;", a blank line
\* and an empty one.
LineTexts ==
    { SystemInclude, ProjectInclude, <<"i", "n", "t", " ", "x", ";">>, <<" ">>, <<>> }

\* What the provider answers for a document of n lines: nothing, no symbol,
\* or symbols of which the first starts on one of the lines.
IncludeAnswers(n) ==
    { Absent, Answer(<<>>) }
        \cup { Answer(RawList(<<Pos(l, 1), Pos(l, 0)>>, "t", <<>>)) : l \in 0..(n - 1) }

IncludeInit ==
    /\ includeLines \in SeqsUpTo(LineTexts, MaxLines) \ {<<>>}
    /\ anchors = NoAnchors
    /\ Idle({"include"})

\* A call of findPositionForNewInclude() that finds an include block: the
\* symbols are not asked for.
FindPositionForNewInclude ==
    /\ anchors = NoAnchors
    /\ \E found \in {BlockAnchors(ScanIncludes(includeLines))} :
          /\ found.system # NoPos /\ found.project # NoPos
          /\ anchors' = findPositionForNewInclude(includeLines, heap, symbols)
    /\ UNCHANGED <<includeLines, fileVars>>
    /\ Frame({"file", "include"})

\* A call of findPositionForNewInclude() that finds no include block:
\* this.symbols is filled from the provider's answer, and the fallback reads it.
FindPositionForNewIncludeFallback ==
    /\ anchors = NoAnchors
    /\ \E found \in {BlockAnchors(ScanIncludes(includeLines))} :
          found.system = NoPos \/ found.project = NoPos
    /\ \E documentSymbols \in IncludeAnswers(Len(includeLines)) :
       \E r \in {executeSourceSymbolProvider(heap, symbols, documentSymbols)} :
             /\ heap' = r.h
             /\ returned' = r.result
             /\ symbols' = r.result
             /\ anchors' = findPositionForNewInclude(includeLines, r.h, r.result)
    /\ UNCHANGED includeLines
    /\ Frame({"file", "include"})

IncludeNext == FindPositionForNewInclude \/ FindPositionForNewIncludeFallback

SpecInclude == IncludeInit /\ [][IncludeNext]_vars

\* The 0-based numbers of the lines that are the plain include of a kind.
LinesOf(lines, text) == { i \in 0..(Len(lines) - 1) : lines[i + 1] = text }

\* A position that reads as the end of line i: after its last character, or
\* at the start of the line that follows.
EndsOfLine(lines, i) == { LineEnd(lines, i), LineStart(i + 1) }

\* C6: in a document whose includes are a block of two <...> lines and, later,
\* one "..." line, the system anchor is the end of the block's second line and
\* the project anchor the end of the "..." line, wherever that line stands.
C6_AsStated ==
    \A s \in 0..(Len(includeLines) - 2) : \A p \in (s + 2)..(Len(includeLines) - 1) :
        ( /\ anchors # NoAnchors
          /\ LinesOf(includeLines, SystemInclude) = {s, s + 1}
          /\ LinesOf(includeLines, ProjectInclude) = {p} )
        => /\ anchors.system \in EndsOfLine(includeLines, s + 1)
           /\ anchors.project \in EndsOfLine(includeLines, p)

\* The contiguous runs of lines that are the plain include of a kind, each
\* <<first line, last line>>.
Runs(lines, text) ==
    { r \in (0..(Len(lines) - 1)) \X (0..(Len(lines) - 1)) :
        /\ r[1] <= r[2]
        /\ \A i \in r[1]..r[2] : lines[i + 1] = text
        /\ r[1] = 0 \/ lines[r[1]] # text
        /\ r[2] = Len(lines) - 1 \/ lines[r[2] + 2] # text }

\* C15: in a document with several runs of include lines of a kind, one of
\* them longer than the others, the anchor of that kind is the end of the
\* longest run.
C15_AsStated ==
    \A kind \in {"system", "project"} :
        LET runs == Runs(includeLines,
                         IF kind = "system" THEN SystemInclude ELSE ProjectInclude)
        IN \A r \in runs :
              ( /\ anchors # NoAnchors
                /\ Cardinality(runs) >= 2
                /\ \A q \in runs \ {r} : q[2] - q[1] < r[2] - r[1] )
              => anchors[kind] \in EndsOfLine(includeLines, r[2])

----------------------------------------------------------------------------
(* CSymbol.findPositionForNewMethod.  The document holds one class, after   *)
(* a prefix of empty lines: "class A{", one member to a line, "};".         *)

\* document.offsetAt(position)
OffsetAt(text, pos) ==
    LET breaks == { i \in 1..Len(text) : text[i] = "\n" }
        lineStart == IF pos.line = 0 THEN 0
                     ELSE CHOOSE b \in breaks :
                              Cardinality({ x \in breaks : x <= b }) = pos.line
    IN lineStart + pos.character

\* document.getText(range)
GetText(text, range) ==
    SubSeq(text, OffsetAt(text, range.start) + 1, OffsetAt(text, range.end))

SetMin(S) == CHOOSE x \in S : \A y \in S : x <= y

WordPublic == <<"p", "u", "b", "l", "i", "c">>

\* /\bpublic\s*:/ matches s from the (1-based) index i on.
MatchesPublicAt(s, i) ==
    /\ i + Len(WordPublic) - 1 <= Len(s)
    /\ SubSeq(s, i, i + Len(WordPublic) - 1) = WordPublic
    /\ i = 1 \/ ~IsWordChar(s[i - 1])
    /\ \E j \in (i + Len(WordPublic))..Len(s) :
          /\ s[j] = ":"
          /\ \A k \in (i + Len(WordPublic))..(j - 1) : IsSpaceChar(s[k])

\* /\bpublic\s*:/g.exec(text)?.index, -1 for undefined.
PublicSpecifierIndex(s) ==
    LET at == { i \in 1..Len(s) : MatchesPublicAt(s, i) }
    IN IF at = {} THEN -1 ELSE SetMin(at) - 1

\* Where a match of /\w[\w\d]*\s*:(?!:)/ that starts at the (1-based) index i
\* ends, 0 when there is none: a word character, the word characters and then
\* the whitespace that follow, a colon that no colon follows.
AccessSpecifierEnd(s, i) ==
    IF ~IsWordChar(s[i]) THEN 0
    ELSE LET w == SetMin({ j \in i..(Len(s) + 1) : j > Len(s) \/ ~IsWordChar(s[j]) })
             c == SetMin({ j \in w..(Len(s) + 1) : j > Len(s) \/ ~IsSpaceChar(s[j]) })
         IN IF c <= Len(s) /\ s[c] = ":" /\ ~(c + 1 <= Len(s) /\ s[c + 1] = ":")
            THEN c ELSE 0

\* for (const match of text.matchAll(/\w[\w\d]*\s*:(?!:)/g)), the matches
\* from the (1-based) index from on: the index of the first match that is not
\* 0 and is greater than publicSpecifierOffset, 0 when no match is.
RECURSIVE NextAccessSpecifier(_, _, _)
NextAccessSpecifier(s, from, publicSpecifierOffset) ==
    LET at == { i \in from..Len(s) : AccessSpecifierEnd(s, i) # 0 }
    IN IF at = {} THEN 0
       ELSE With(SetMin(at), LAMBDA i :
                IF i - 1 # 0 /\ i - 1 > publicSpecifierOffset THEN i - 1
                ELSE NextAccessSpecifier(s, AccessSpecifierEnd(s, i) + 1,
                                         publicSpecifierOffset))

\* CSymbol.isFunction()
isFunction(sym) == sym.kind \in {"Operator", "Method", "Constructor", "Function"}

\* symbolIsBetween(symbol, afterOffset, beforeOffset)
symbolIsBetween(text, sym, afterOffset, beforeOffset) ==
    /\ isFunction(sym)
    /\ OffsetAt(text, sym.range.start) > afterOffset
    /\ OffsetAt(text, sym.range.end) < beforeOffset

\* CSymbol.id()
SymbolId(text, sym) == GetText(text, sym.selectionRange)

\* lastChildPositionOrUndefined()
lastChildPositionOrUndefined(h, this) ==
    IF h[this].children = <<>> THEN NoPosition
    ELSE [value |-> h[h[this].children[Len(h[this].children)]].range.end,
          before |-> "unset", after |-> "true", nextTo |-> "unset"]

\* The first loop of findPositionForNewMethod from child i down: each child
\* is re-wrapped, the first that is a function between the offsets ends the
\* loop.  [h, found, index]
RECURSIVE FindFallback(_, _, _, _, _, _)
FindFallback(h, text, this, i, afterOffset, beforeOffset) ==
    IF i < 0 THEN [h |-> h, found |-> FALSE, index |-> 0]
    ELSE With(NewCSymbol(h, [tag |-> "obj", v |-> h[this].children[i + 1]], this),
              LAMBDA c :
                IF symbolIsBetween(text, c.h[c.id], afterOffset, beforeOffset)
                THEN [h |-> c.h, found |-> TRUE, index |-> i]
                ELSE FindFallback(c.h, text, this, i - 1, afterOffset, beforeOffset))

\* The second loop, from child i down: the first child that is a function
\* between the offsets and whose id() is relativeName.  [h, found, index]
RECURSIVE FindRelative(_, _, _, _, _, _, _)
FindRelative(h, text, this, i, afterOffset, beforeOffset, relativeName) ==
    IF i < 0 THEN [h |-> h, found |-> FALSE, index |-> 0]
    ELSE With(NewCSymbol(h, [tag |-> "obj", v |-> h[this].children[i + 1]], this),
              LAMBDA c :
                IF /\ symbolIsBetween(text, c.h[c.id], afterOffset, beforeOffset)
                   /\ SymbolId(text, c.h[c.id]) = relativeName
                THEN [h |-> c.h, found |-> TRUE, index |-> i]
                ELSE FindRelative(c.h, text, this, i - 1, afterOffset, beforeOffset,
                                  relativeName))

\* The part of findPositionForNewMethod after the public section is bounded.
PositionInSection(h, text, this, relativeName, memberVariable, afterOffset, beforeOffset) ==
    With(FindFallback(h, text, this, Len(h[this].children) - 1, afterOffset, beforeOffset),
         LAMBDA fb :
        LET fallbackPosition ==
                [value |-> h[h[this].children[fb.index + 1]].range.end,
                 before |-> "unset", after |-> "true", nextTo |-> "unset"]
        IN \* if (!fallbackPosition || !fallbackIndex)
           IF ~fb.found \/ fb.index = 0
           THEN [h |-> fb.h, result |-> lastChildPositionOrUndefined(fb.h, this)]
           ELSE IF relativeName = <<>>
           THEN [h |-> fb.h, result |-> fallbackPosition]
           ELSE With(FindRelative(fb.h, text, this, fb.index, afterOffset, beforeOffset,
                                  relativeName), LAMBDA rel :
                LET range == h[h[this].children[rel.index + 1]].range
                IN [h |-> rel.h,
                    result |->
                       IF ~rel.found THEN fallbackPosition
                       \* isGetter
                       ELSE IF memberVariable # NoMember
                               /\ relativeName = setterName(memberVariable)
                       THEN [value |-> range.start,
                             before |-> "true", after |-> "unset", nextTo |-> "true"]
                       ELSE [value |-> range.end,
                             before |-> "unset", after |-> "true", nextTo |-> "true"]]))

\* this.findPositionForNewMethod(relativeName, memberVariable) for the CSymbol
\* this of heap h in a document of this text; relativeName is <<>> and
\* memberVariable NoMember when left out.  [h, result], result NoPosition for
\* undefined.
findPositionForNewMethod(h, text, this, relativeName, memberVariable) ==
    IF h[this].kind \notin {"Class", "Struct"}
    THEN [h |-> h, result |-> lastChildPositionOrUndefined(h, this)]
    ELSE With(GetText(text, h[this].range), LAMBDA classText :
         With(OffsetAt(text, h[this].range.start), LAMBDA startOffset :
         With(PublicSpecifierIndex(classText), LAMBDA index :
            \* if (!publicSpecifierOffset): undefined, or 0
            IF index = -1 \/ index = 0
            THEN [h |-> h, result |-> lastChildPositionOrUndefined(h, this)]
            ELSE With(NextAccessSpecifier(classText, 1, index + startOffset),
                      LAMBDA next :
                    PositionInSection(h, text, this, relativeName, memberVariable,
                        index + startOffset,
                        IF next = 0 THEN OffsetAt(text, h[this].range.end)
                        ELSE next + startOffset)))))

\* The members a class is written with: [text, kind, idAt, idLen], the
\* identifier being idLen characters from the idAt-th on.
PublicSpecifier ==
    [text |-> WordPublic \o <<":">>, kind |-> "Specifier", idAt |-> 0, idLen |-> 0]

\* "public:", "private:", "void setX();", "void f();" and "int x;"
Members ==
    { PublicSpecifier,
      [text |-> <<"p", "r", "i", "v", "a", "t", "e", ":">>,
       kind |-> "Specifier", idAt |-> 0, idLen |-> 0],
      [text |-> <<"v", "o", "i", "d", " ", "s", "e", "t", "X", "(", ")", ";">>,
       kind |-> "Method", idAt |-> 5, idLen |-> 4],
      [text |-> <<"v", "o", "i", "d", " ", "f", "(", ")", ";">>,
       kind |-> "Method", idAt |-> 5, idLen |-> 1],
      [text |-> <<"i", "n", "t", " ", "x", ";">>,
       kind |-> "Field", idAt |-> 4, idLen |-> 1] }

ClassOpen == <<"c", "l", "a", "s", "s", " ", "A", "{", "\n">>

RECURSIVE MembersText(_)
MembersText(members) ==
    IF members = <<>> THEN <<>>
    ELSE Head(members).text \o <<"\n">> \o MembersText(Tail(members))

\* The text of the document of input in: the prefix, then the class.
DocumentText(in) ==
    Repeat("\n", in.prefix) \o ClassOpen \o MembersText(in.members) \o <<"}", ";">>

RangeOf(text, from, to) == [start |-> PositionAt(text, from), end |-> PositionAt(text, to)]

\* The vscode.DocumentSymbol the provider has for the k-th member.
MemberSymbol(in, k) ==
    LET mem == in.members[k]
        at == in.prefix + Len(ClassOpen) + Len(MembersText(SubSeq(in.members, 1, k - 1)))
        text == DocumentText(in)
    IN [name |-> SubSeq(mem.text, mem.idAt + 1, mem.idAt + mem.idLen),
        kind |-> mem.kind,
        range |-> RangeOf(text, at, at + Len(mem.text)),
        selectionRange |-> RangeOf(text, at + mem.idAt, at + mem.idAt + mem.idLen),
        children |-> <<>>]

RECURSIVE MemberSymbols(_, _)
MemberSymbols(in, k) ==
    IF k > Len(in.members) THEN <<>>
    ELSE IF in.members[k].kind = "Specifier" THEN MemberSymbols(in, k + 1)
    ELSE <<MemberSymbol(in, k)>> \o MemberSymbols(in, k + 1)

\* The vscode.DocumentSymbol the provider has for the class.
ClassSymbol(in) ==
    LET text == DocumentText(in)
    IN [name |-> <<"A">>, kind |-> in.kind,
        range |-> RangeOf(text, in.prefix, Len(text)),
        selectionRange |-> RangeOf(text, in.prefix + 6, in.prefix + 7),
        children |-> MemberSymbols(in, 1)]

MaxMembers == 4
MaxPrefix == 24

\* The documents: the class at the start or after MaxPrefix empty lines, of a
\* kind, of up to MaxMembers members.
ClassInputs ==
    [prefix : {0, MaxPrefix}, kind : {"Class", "Struct", "Namespace"},
     members : SeqsUpTo(Members, MaxMembers)]

\* The arguments of a call: no relativeName, the setter's identifier or the
\* other function's; no memberVariable or the member variable x.
MethodArguments ==
    [relativeName : { <<>>, <<"s", "e", "t", "X">>, <<"f">> },
     memberVariable : { NoMember, [id |-> <<"x">>, kind |-> "Field"] }]

MethodInit ==
    /\ classInput \in ClassInputs
    /\ classSymbol = 0
    /\ methodArgs = [relativeName |-> <<>>, memberVariable |-> NoMember]
    /\ methodResult = NoPosition
    /\ methodPc = "start"
    /\ Idle({"method"})

\* new CSymbol(documentSymbol, document) for the class of the document.
NewClassSymbol ==
    /\ methodPc = "start"
    /\ \E r \in {NewCSymbol(heap, [tag |-> "raw", v |-> ClassSymbol(classInput)], 0)} :
          /\ heap' = r.h
          /\ classSymbol' = r.id
    /\ methodPc' = "constructed"
    /\ UNCHANGED <<symbols, returned, classInput, methodArgs, methodResult>>
    /\ Frame({"file", "method"})

\* classSymbol.findPositionForNewMethod(relativeName, memberVariable)
FindPositionForNewMethod ==
    /\ methodPc = "constructed"
    /\ \E args \in MethodArguments :
       \E r \in {findPositionForNewMethod(heap, DocumentText(classInput), classSymbol,
                                          args.relativeName, args.memberVariable)} :
          /\ heap' = r.h
          /\ methodResult' = r.result
          /\ methodArgs' = args
    /\ methodPc' = "called"
    /\ UNCHANGED <<symbols, returned, classInput, classSymbol>>
    /\ Frame({"file", "method"})

MethodNext == NewClassSymbol \/ FindPositionForNewMethod

SpecMethod == MethodInit /\ [][MethodNext]_vars

\* The members (by their place in the class) that are functions of the public
\* section as the class is written: after the first "public:" and before the
\* access specifier that follows it.
PublicFunctionMembers(in) ==
    { k \in 1..Len(in.members) :
        /\ isFunction(in.members[k])
        /\ \E p \in 1..(k - 1) :
              /\ in.members[p] = PublicSpecifier
              /\ \A q \in 1..(p - 1) : in.members[q] # PublicSpecifier
              /\ \A q \in (p + 1)..(k - 1) : in.members[q].kind # "Specifier" }

\* C7: on a class or struct with a function of the public section whose
\* identifier is relativeName, and relativeName the member variable's setter
\* name, the result is before that function's start, next to it.
C7_AsStated ==
    ( /\ methodPc = "called"
      /\ classInput.kind \in {"Class", "Struct"}
      /\ methodArgs.memberVariable # NoMember
      /\ methodArgs.relativeName = setterName(methodArgs.memberVariable)
      /\ \E k \in PublicFunctionMembers(classInput) :
            MemberSymbol(classInput, k).name = methodArgs.relativeName )
    => \E k \in PublicFunctionMembers(classInput) :
          /\ MemberSymbol(classInput, k).name = methodArgs.relativeName
          /\ methodResult = [value |-> MemberSymbol(classInput, k).range.start,
                             before |-> "true", after |-> "unset", nextTo |-> "true"]

\* C12: on a class or struct, a result other than the position after the last
\* child is at the start or the end of a function of the public section as the
\* class is written, wherever the class starts in the document.
C12_AsStated ==
    ( /\ methodPc = "called"
      /\ classInput.kind \in {"Class", "Struct"}
      /\ methodResult # lastChildPositionOrUndefined(heap, classSymbol) )
    => \E k \in PublicFunctionMembers(classInput) :
          methodResult.value \in { MemberSymbol(classInput, k).range.start,
                                   MemberSymbol(classInput, k).range.end }

\* C13: on a class or struct with a function in the public section and no
\* relativeName, the result is after the end of the last such function.
C13_AsStated ==
    ( /\ methodPc = "called"
      /\ classInput.kind \in {"Class", "Struct"}
      /\ methodArgs.relativeName = <<>>
      /\ PublicFunctionMembers(classInput) # {} )
    => methodResult =
          [value |-> MemberSymbol(classInput,
                                  SetMax(PublicFunctionMembers(classInput))).range.end,
           before |-> "unset", after |-> "true", nextTo |-> "unset"]

----------------------------------------------------------------------------
(* findDefinitionInWorkspace(position, uri).  A path is its text; a         *)
(* candidate of the provider is a vscode.Location, [shape |-> "Location",   *)
(* path, range], or a vscode.LocationLink, [shape |-> "Link", path, range]  *)
(* with path and range for targetUri.path and targetRange.                  *)

\* vscode.Range.contains(position)
contains(range, position) ==
    ~isAfter(range.start, position) /\ ~isAfter(position, range.end)

\* String.prototype.includes
includes(s, part) ==
    \E i \in 0..(Len(s) - Len(part)) : SubSeq(s, i + 1, i + Len(part)) = part

\* result instanceof vscode.Location ? result
\*     : new vscode.Location(result.targetUri, result.targetRange)
AsLocation(result) == [path |-> result.path, range |-> result.range]

\* The condition under which the loop returns location.
Returned(location, position, path, folders) ==
    \/ location.path = path /\ ~contains(location.range, position)
    \/ /\ location.path # path
       /\ folders.present
       /\ \E f \in 1..Len(folders.list) : includes(location.path, folders.list[f])

RECURSIVE FirstReturned(_, _, _, _, _)
FirstReturned(list, k, position, path, folders) ==
    IF k > Len(list) THEN NoLocation
    ELSE IF Returned(AsLocation(list[k]), position, path, folders)
    THEN AsLocation(list[k])
    ELSE FirstReturned(list, k + 1, position, path, folders)

\* A lookup that goes through the candidates twice: first for one in the file
\* of the query, then for one in a workspace folder.
findDefinitionPreferring(position, path, results, folders) ==
    IF ~results.present THEN NoLocation
    ELSE LET same == FirstReturned(results.list, 1, position, path,
                                   [present |-> FALSE, list |-> <<>>])
         IN IF same # NoLocation THEN same
            ELSE FirstReturned(results.list, 1, position, path, folders)

\* findDefinitionInWorkspace(position, uri), results being the provider's
\* answer and path uri.path.
findDefinitionInWorkspace(position, path, results, folders) ==
    IF ~results.present THEN NoLocation
    ELSE FirstReturned(results.list, 1, position, path, folders)

MaxCandidates == 2

\* The position and the file of the query.
QueryPosition == Pos(1, 2)

QueryPath == <<"/", "w", "/", "a">>

\* The candidates: in the file of the query, in another file of the folder /w,
\* in a file of /w2 or in a file of /x; at the range of the queried identifier
\* or at a range elsewhere.
Candidates ==
    [shape : {"Location", "Link"},
     path : { QueryPath, <<"/", "w", "/", "b">>, <<"/", "w", "2", "/", "b">>,
              <<"/", "x", "/", "b">> },
     range : { [start |-> Pos(1, 0), end |-> Pos(1, 5)],
               [start |-> Pos(3, 0), end |-> Pos(3, 5)] }]

FolderLists ==
    { [present |-> FALSE, list |-> <<>>],
      [present |-> TRUE, list |-> <<>>],
      [present |-> TRUE, list |-> << <<"/", "w">> >>],
      [present |-> TRUE, list |-> << <<"/", "x">>, <<"/", "w">> >>] }

LookupInit ==
    /\ definitionResults \in
          { [present |-> FALSE, list |-> <<>>] }
              \cup { [present |-> TRUE, list |-> l] :
                         l \in SeqsUpTo(Candidates, MaxCandidates) }
    /\ workspaceFolders \in FolderLists
    /\ definition = NoLocation
    /\ lookupPc = "start"
    /\ Idle({"lookup"})

\* A call of findDefinitionInWorkspace(QueryPosition, uri of QueryPath).
FindDefinitionInWorkspace ==
    /\ lookupPc = "start"
    /\ definition' = findDefinitionInWorkspace(QueryPosition, QueryPath,
                                               definitionResults, workspaceFolders)
    /\ lookupPc' = "called"
    /\ UNCHANGED <<definitionResults, workspaceFolders>>
    /\ Frame({"lookup"})

LookupNext == FindDefinitionInWorkspace

SpecLookup == LookupInit /\ [][LookupNext]_vars

\* The candidates (by their place in the list) in the file of the query whose
\* range does not contain the position of the query.
SameFileCandidates ==
    { k \in 1..Len(definitionResults.list) :
        /\ definitionResults.list[k].path = QueryPath
        /\ ~contains(definitionResults.list[k].range, QueryPosition) }

\* path is the path of a file under the folder of path root.
Under(path, root) ==
    /\ Len(path) > Len(root)
    /\ SubSeq(path, 1, Len(root)) = root
    /\ path[Len(root) + 1] = "/"

\* The candidates in a file under an open workspace folder.
WorkspaceCandidates ==
    { k \in 1..Len(definitionResults.list) :
        /\ workspaceFolders.present
        /\ \E f \in 1..Len(workspaceFolders.list) :
              Under(definitionResults.list[k].path, workspaceFolders.list[f]) }

\* C8 as stated: a candidate of the file of the query is preferred to any
\* candidate of the workspace, wherever the two stand in the list.
C8_AsStated ==
    lookupPc = "called" =>
        IF SameFileCandidates # {}
        THEN definition = AsLocation(definitionResults.list[SetMin(SameFileCandidates)])
        ELSE IF WorkspaceCandidates # {}
        THEN definition = AsLocation(definitionResults.list[SetMin(WorkspaceCandidates)])
        ELSE definition = NoLocation

\* The candidates the lookup accepts: in the file of the query with a range
\* that does not contain the position, or in another file whose path has the
\* path of an open workspace folder somewhere in it.
AcceptedCandidates ==
    SameFileCandidates
        \cup { k \in 1..Len(definitionResults.list) :
                 /\ definitionResults.list[k].path # QueryPath
                 /\ workspaceFolders.present
                 /\ \E f \in 1..Len(workspaceFolders.list) : \E i \in 1..Len(definitionResults.list[k].path) :
                       /\ i + Len(workspaceFolders.list[f]) - 1 <= Len(definitionResults.list[k].path)
                       /\ \A j \in 1..Len(workspaceFolders.list[f]) :
                             definitionResults.list[k].path[i + j - 1] = workspaceFolders.list[f][j] }

\* C8: the lookup returns the first candidate, in the order of the list, that
\* it accepts, of whichever of the two kinds it is; nothing when it accepts
\* none or the provider has no answer.
C8_FirstAccepted ==
    lookupPc = "called" =>
        IF AcceptedCandidates # {}
        THEN definition = AsLocation(definitionResults.list[SetMin(AcceptedCandidates)])
        ELSE definition = NoLocation

\* A candidate of the workspace stands before one of the file of the query,
\* and is the one returned.
C8_Witness ==
    /\ lookupPc = "called"
    /\ SameFileCandidates # {}
    /\ \E k \in WorkspaceCandidates :
          /\ k < SetMin(SameFileCandidates)
          /\ definitionResults.list[k].path # QueryPath
          /\ definition = AsLocation(definitionResults.list[k])

----------------------------------------------------------------------------
(* SourceDocument.getSymbol, SourceDocument.findPositionForNewDefinition    *)
(* and CSymbol.newFunctionDefinition.  Two documents: the header, of path   *)
(* QueryPath, whose symbols are SourceFile.symbols above and which declares *)
(* the functions, and the target, which defines them.  A call passes the    *)
(* target; the declaration it passes is a symbol of the header.             *)

\* The text of the header: namespace N, in it class C, in it the declarations
\* of a, b, c and d, one to a line.
HeaderText ==
    <<"N", "{", "\n", "C", "{", "\n", "a", ";", "\n", "b", ";", "\n",
      "c", ";", "\n", "d", ";", "\n", "}", ";", "\n", "}">>

MaxDeclarations == 4

\* What the symbol provider answers for the header: the declarations in the
\* class of the namespace ("nested"), or the declarations alone ("flat").
HeaderForest(shape) ==
    LET names == <<"a", "b", "c", "d">>
        span(l, to) == [start |-> Pos(l, 0), end |-> Pos(l, to)]
        declarations ==
            [i \in 1..MaxDeclarations |->
                [name |-> <<names[i]>>, kind |-> "Method", range |-> span(i + 1, 1),
                 selectionRange |-> span(i + 1, 1), children |-> <<>>]]
        class == [name |-> <<"C">>, kind |-> "Class",
                  range |-> [start |-> Pos(1, 0), end |-> Pos(6, 1)],
                  selectionRange |-> span(1, 1), children |-> declarations]
    IN IF shape = "flat" THEN declarations
       ELSE << [name |-> <<"N">>, kind |-> "Namespace",
                range |-> [start |-> Pos(0, 0), end |-> Pos(7, 1)],
                selectionRange |-> span(0, 1), children |-> <<class>>] >>

TargetPath == <<"/", "w", "/", "b">>

\* The lines of the target: namespace N, in it the definitions of a, b, c and
\* d, the k-th on line k, each followed by no, one or two semicolons; a has a
\* local struct L.  The last line is empty.
TargetLines ==
    << <<"N", "{">>, <<"a", "{", "L", "}", ";">>, <<"b", "{", "}", ";", ";">>,
       <<"c", "{", "}">>, <<"d", "{", "}", ";">>, <<"}", ";">>, <<>> >>

\* What the symbol provider answers for the target when it has an answer.
TargetForest ==
    LET names == <<"a", "b", "c", "d">>
        local == [name |-> <<"L">>, kind |-> "Struct",
                  range |-> [start |-> Pos(1, 2), end |-> Pos(1, 3)],
                  selectionRange |-> [start |-> Pos(1, 2), end |-> Pos(1, 3)],
                  children |-> <<>>]
        definitions ==
            [k \in 1..MaxDeclarations |->
                [name |-> <<names[k]>>, kind |-> "Function",
                 range |-> [start |-> Pos(k, 0), end |-> Pos(k, IF k = 1 THEN 4 ELSE 3)],
                 selectionRange |-> [start |-> Pos(k, 0), end |-> Pos(k, 1)],
                 children |-> IF k = 1 THEN <<local>> ELSE <<>>]]
    IN << [name |-> <<"N">>, kind |-> "Namespace",
           range |-> [start |-> Pos(0, 0), end |-> Pos(5, 1)],
           selectionRange |-> [start |-> Pos(0, 0), end |-> Pos(0, 1)],
           children |-> definitions] >>

\* What the definition provider answers for the k-th sibling: nothing
\* ("none"), or the identifier of the k-th definition, in the target
\* ("target") or in a third file of the workspace ("other").
DefinitionResults(k, resolve) ==
    IF resolve = "none" THEN [present |-> FALSE, list |-> <<>>]
    ELSE [present |-> TRUE,
          list |-> << [shape |-> "Location",
                       path |-> IF resolve = "target" THEN TargetPath
                                ELSE <<"/", "w", "/", "c">>,
                       range |-> [start |-> Pos(k, 0), end |-> Pos(k, 1)]] >>]

\* searchSymbolTree(sourceSymbols) of SourceFile.getSymbol, from the k-th
\* symbol on: the id of the symbol returned, 0 for undefined.
RECURSIVE searchSymbolTree(_, _, _, _)
searchSymbolTree(h, sourceSymbols, k, position) ==
    IF k > Len(sourceSymbols) THEN 0
    ELSE IF ~contains(h[sourceSymbols[k]].range, position)
    THEN searchSymbolTree(h, sourceSymbols, k + 1, position)
    ELSE IF h[sourceSymbols[k]].children = <<>> THEN sourceSymbols[k]
    ELSE searchSymbolTree(h, h[sourceSymbols[k]].children, 1, position)

\* SourceDocument.getSymbol(position) once this.symbols is syms: [h, id], id
\* the CSymbol constructed, 0 for undefined.
getSymbol(h, syms, position) ==
    With(searchSymbolTree(h, syms, 1, position), LAMBDA sourceSymbol :
        IF sourceSymbol = 0 THEN [h |-> h, id |-> 0]
        ELSE NewCSymbol(h, [tag |-> "obj", v |-> sourceSymbol], 0))

\* getEndOfStatement(position, document) for a document of these lines; the
\* text of a range that reaches past the end of its line is empty.
RECURSIVE getEndOfStatement(_, _)
getEndOfStatement(position, lines) ==
    IF /\ position.character < Len(lines[position.line + 1])
       /\ lines[position.line + 1][position.character + 1] = ";"
    THEN getEndOfStatement(Pos(position.line, position.character + 1), lines)
    ELSE position

\* Array.prototype.reverse
Reverse(s) == [i \in 1..Len(s) |-> s[Len(s) + 1 - i]]

\* The two loops of findPositionForNewDefinition as one, over order, the
\* siblings to examine, each [k, side], k its place among siblingSymbols and
\* side "before" or "after", from the i-th on.  [h, anchored, result]
RECURSIVE FirstAnchor(_, _, _, _, _, _)
FirstAnchor(h, targetSyms, siblingSymbols, order, i, resolves) ==
    IF i > Len(order) THEN [h |-> h, anchored |-> FALSE, result |-> NoPosition]
    ELSE LET k == order[i].k
             definitionLocation ==
                 findDefinitionInWorkspace(h[siblingSymbols[k]].selectionRange.start,
                     QueryPath, DefinitionResults(k, resolves[k]),
                     [present |-> TRUE, list |-> << <<"/", "w">> >>])
         IN IF definitionLocation = NoLocation \/ definitionLocation.path # TargetPath
            THEN FirstAnchor(h, targetSyms, siblingSymbols, order, i + 1, resolves)
            ELSE With(getSymbol(h, targetSyms, definitionLocation.range.start),
                      LAMBDA d :
                 IF d.id = 0
                 THEN FirstAnchor(d.h, targetSyms, siblingSymbols, order, i + 1, resolves)
                 ELSE [h |-> d.h, anchored |-> TRUE,
                       result |->
                          IF order[i].side = "before"
                          THEN [value |-> getEndOfStatement(d.h[d.id].range.end,
                                                            TargetLines),
                                before |-> "unset", after |-> "true", nextTo |-> "unset"]
                          ELSE [value |-> getEndOfStatement(d.h[d.id].range.start,
                                                            TargetLines),
                                before |-> "true", after |-> "unset",
                                nextTo |-> "unset"]])

\* The siblings to examine: those seen before the first whose range is the
\* declaration's, reversed, then those seen after it.  symbol.range ===
\* declaration.range compares references; a CSymbol shares its range object
\* with the SourceSymbol it wraps, and no two siblings have equal ranges, so
\* the references are the same exactly when the ranges are equal.
ExaminedSiblings(h, siblingSymbols, decl) ==
    LET all == 1..Len(siblingSymbols)
        hits == { k \in all : h[siblingSymbols[k]].range = h[decl].range }
        hit == IF hits = {} THEN Len(siblingSymbols) + 1
               ELSE CHOOSE k \in hits : \A j \in hits : k <= j
        before == [k \in 1..(hit - 1) |-> [k |-> k, side |-> "before"]]
        after == SelectSeq([k \in all |-> [k |-> k, side |-> "after"]],
                           LAMBDA e : e.k > hit /\ e.k \notin hits)
    IN Reverse(before) \o after

\* this.findPositionForNewDefinition(declaration, target), this the header
\* and decl a symbol of it: [h, symbols, targetSymbols, result, raised].
\* thisAnswer and targetAnswer are what the symbol provider answers when
\* asked, resolves what the definition provider answers for each sibling.
findPositionForNewDefinition(h, syms, targetSyms, decl, thisAnswer, targetAnswer,
                             resolves) ==
    With(IF syms = Undefined THEN executeSourceSymbolProvider(h, syms, thisAnswer)
         ELSE [h |-> h, result |-> syms], LAMBDA here :
    IF h[decl].parent = 0 /\ Len(here.result) = 0
    THEN [h |-> here.h, symbols |-> here.result, targetSymbols |-> targetSyms,
          raised |-> FALSE,
          result |-> [value |-> Pos(0, 0), before |-> "unset", after |-> "unset",
                      nextTo |-> "unset"]]
    ELSE
    With(IF targetSyms = Undefined
         THEN executeSourceSymbolProvider(here.h, targetSyms, targetAnswer)
         ELSE [h |-> here.h, result |-> targetSyms], LAMBDA there :
    IF targetSyms = Undefined /\ Len(there.result) = 0
    THEN LET withText == { i \in 0..(Len(TargetLines) - 1) :
                             ~isEmptyOrWhitespace(TargetLines[i + 1]) }
         IN [h |-> there.h, symbols |-> here.result, targetSymbols |-> there.result,
             raised |-> FALSE,
             result |->
                IF withText = {}
                THEN [value |-> Pos(0, 0), before |-> "unset", after |-> "unset",
                      nextTo |-> "unset"]
                ELSE [value |-> LineEnd(TargetLines, SetMax(withText)),
                      before |-> "unset", after |-> "true", nextTo |-> "unset"]]
    ELSE
    With(IF h[decl].parent # 0 THEN there.h[h[decl].parent].children ELSE here.result,
         LAMBDA siblingSymbols :
    With(FirstAnchor(there.h, there.result, siblingSymbols,
                     ExaminedSiblings(there.h, siblingSymbols, decl), 1, resolves),
         LAMBDA a :
        IF a.anchored
        THEN [h |-> a.h, symbols |-> here.result, targetSymbols |-> there.result,
              raised |-> FALSE, result |-> a.result]
        \* target.symbols[target.symbols.length - 1].range of an empty array
        ELSE IF Len(there.result) = 0
        THEN [h |-> a.h, symbols |-> here.result, targetSymbols |-> there.result,
              raised |-> TRUE, result |-> NoPosition]
        ELSE [h |-> a.h, symbols |-> here.result, targetSymbols |-> there.result,
              raised |-> FALSE,
              result |->
                 [value |-> getEndOfStatement(
                                a.h[there.result[Len(there.result)]].range.end,
                                TargetLines),
                  before |-> "unset", after |-> "true", nextTo |-> "unset"]]))))

\* searchSymbolTree(symbolResults) of SourceFile.findMatchingSymbol: the loop
\* returns in its first pass.  The id of the symbol returned, 0 for undefined.
RECURSIVE findMatchingSymbol(_, _, _)
findMatchingSymbol(h, symbolResults, name) ==
    IF symbolResults = <<>> THEN 0
    ELSE IF h[symbolResults[1]].name = name THEN symbolResults[1]
    ELSE findMatchingSymbol(h, h[symbolResults[1]].children, name)

\* CSymbol.scopes()
RECURSIVE scopes(_, _)
scopes(h, sym) ==
    IF h[sym].parent = 0 THEN <<>> ELSE scopes(h, h[sym].parent) \o <<h[sym].parent>>

\* The loop of newFunctionDefinition that builds scopeString, from the i-th
\* scope on, the target's symbols being targetSyms; position is NoPos when
\* none is passed.
RECURSIVE ScopeString(_, _, _, _, _)
ScopeString(h, scopeList, i, targetSyms, position) ==
    IF i > Len(scopeList) THEN <<>>
    ELSE LET targetScope == findMatchingSymbol(h, targetSyms, h[scopeList[i]].name)
             rest == ScopeString(h, scopeList, i + 1, targetSyms, position)
         IN IF \/ targetScope = 0
               \/ position # NoPos /\ ~contains(h[targetScope].range, position)
            THEN SymbolId(HeaderText, h[scopeList[i]]) \o <<":", ":">> \o rest
            ELSE rest

\* this.newFunctionDefinition(target, position) as far as scopeString:
\* [h, targetSymbols, result].  The first call of target.findMatchingSymbol
\* fills target.symbols when it is undefined.
newFunctionDefinition(h, this, targetSyms, targetAnswer, position) ==
    IF ~(isFunction(h[this]) /\ GetText(HeaderText, h[this].range) # <<>>
         /\ GetText(HeaderText, h[this].range)[Len(GetText(HeaderText, h[this].range))]
                # "}")
    THEN [h |-> h, targetSymbols |-> targetSyms, result |-> <<>>]
    ELSE IF scopes(h, this) = <<>>
    THEN [h |-> h, targetSymbols |-> targetSyms, result |-> <<>>]
    ELSE With(IF targetSyms = Undefined
              THEN executeSourceSymbolProvider(h, targetSyms, targetAnswer)
              ELSE [h |-> h, result |-> targetSyms], LAMBDA there :
            [h |-> there.h, targetSymbols |-> there.result,
             result |-> ScopeString(there.h, scopes(h, this), 1, there.result,
                                    position)])

\* What the symbol provider may answer for the target.
TargetAnswers == { Absent, Answer(<<>>), Answer(TargetForest) }

DefinitionInit == Idle({})

\* doc.getSymbol(position).  Of the target, at a position in the definition
\* of c, in the definition of a before its local struct, in the namespace
\* before its first child, or after the namespace: target.symbols is filled
\* when undefined.  Of the header, at a declaration: the CSymbol returned is
\* the declaration of the calls that follow.
GetSymbol(doc) ==
    /\ targetPc = "start"
    /\ IF doc = "target"
       THEN /\ queried = NoPos
            /\ \E position \in { Pos(3, 1), Pos(1, 0), Pos(0, 1), Pos(6, 0) } :
               \E documentSymbols \in TargetAnswers :
               \E fill \in {IF targetSymbols = Undefined
                            THEN executeSourceSymbolProvider(heap, targetSymbols,
                                                             documentSymbols)
                            ELSE [h |-> heap, result |-> targetSymbols]} :
               \E r \in {getSymbol(fill.h, fill.result, position)} :
                  /\ heap' = r.h
                  /\ targetSymbols' = fill.result
                  /\ foundSymbol' = r.id
                  /\ queried' = position
            /\ UNCHANGED <<symbols, returned, declaration, targetPc>>
       ELSE /\ \E i \in 1..MaxDeclarations : \E shape \in {"nested", "flat"} :
               \E fill \in {IF symbols = Undefined
                            THEN executeSourceSymbolProvider(heap, symbols,
                                                             Answer(HeaderForest(shape)))
                            ELSE [h |-> heap, result |-> symbols]} :
               \E r \in {getSymbol(fill.h, fill.result, Pos(i + 1, 0))} :
                  /\ heap' = r.h
                  /\ symbols' = fill.result
                  /\ returned' = fill.result
                  /\ declaration' = r.id
            /\ targetPc' = "declared"
            /\ UNCHANGED <<targetSymbols, foundSymbol, queried>>
    /\ UNCHANGED <<callArgs, proposed, qualified>>
    /\ Frame({"file", "target"})

\* header.findPositionForNewDefinition(declaration, target)
FindPositionForNewDefinition ==
    /\ targetPc = "declared"
    /\ \E resolves \in [1..MaxDeclarations -> {"none", "target", "other"}] :
       \E documentSymbols \in IF targetSymbols = Undefined THEN TargetAnswers
                              ELSE {Absent} :
       \E r \in {findPositionForNewDefinition(heap, symbols, targetSymbols, declaration,
                                              Absent, documentSymbols, resolves)} :
          /\ heap' = r.h
          /\ symbols' = r.symbols
          /\ targetSymbols' = r.targetSymbols
          /\ proposed' = r.result
          /\ targetPc' = IF r.raised THEN "raised" ELSE "returned"
          /\ callArgs' = [resolves |-> resolves, position |-> NoPos]
    /\ UNCHANGED <<returned, declaration, queried, foundSymbol, qualified>>
    /\ Frame({"file", "target"})

\* declaration.newFunctionDefinition(target, position), position left out, in
\* the target's namespace or after it.
NewFunctionDefinition ==
    /\ targetPc = "declared"
    /\ \E position \in { NoPos, Pos(3, 0), Pos(6, 0) } :
       \E documentSymbols \in IF targetSymbols = Undefined THEN TargetAnswers
                              ELSE {Absent} :
       \E r \in {newFunctionDefinition(heap, declaration, targetSymbols, documentSymbols,
                                       position)} :
          /\ heap' = r.h
          /\ targetSymbols' = r.targetSymbols
          /\ qualified' = r.result
          /\ callArgs' = [resolves |-> <<>>, position |-> position]
    /\ targetPc' = "formatted"
    /\ UNCHANGED <<symbols, returned, declaration, queried, foundSymbol, proposed>>
    /\ Frame({"file", "target"})

DefinitionNext ==
    \/ \E doc \in {"header", "target"} : GetSymbol(doc)
    \/ FindPositionForNewDefinition
    \/ NewFunctionDefinition

SpecDefinition == DefinitionInit /\ [][DefinitionNext]_vars

\* The symbols of the target's tree whose range contains the queried position.
Containing ==
    { id \in TreeIds(heap, targetSymbols) : contains(heap[id].range, queried) }

\* C16: target.getSymbol(position) returns the deepest symbol of the tree
\* whose range contains the position, and nothing only when no symbol's range
\* contains it.
C16_AsStated ==
    queried # NoPos =>
        IF Containing = {} THEN foundSymbol = 0
        ELSE /\ foundSymbol # 0
             /\ \E id \in Containing :
                   /\ \A c \in 1..Len(heap[id].children) :
                         heap[id].children[c] \notin Containing
                   /\ heap[foundSymbol].name = heap[id].name
                   /\ heap[foundSymbol].range = heap[id].range

\* The end of the last line of the target that is not blank.
EndOfTargetText ==
    LineEnd(TargetLines,
            SetMax({ i \in 0..(Len(TargetLines) - 1) : TargetLines[i + 1] # <<>> }))

\* C11: findPositionForNewDefinition never raises, and with an empty tree of
\* the target it returns the end of the target's last non-blank line, after.
C11_AsStated ==
    /\ targetPc # "raised"
    /\ (targetPc = "returned" /\ targetSymbols = <<>>) =>
          proposed = [value |-> EndOfTargetText, before |-> "unset", after |-> "true",
                      nextTo |-> "unset"]

\* The place of the declaration among its siblings, and the siblings in the
\* order of the claim: those before it from the nearest to the farthest, then
\* those after it from the nearest to the farthest.
DeclarationIndex == heap[declaration].range.start.line - 1

SiblingOrder ==
    [i \in 1..(MaxDeclarations - 1) |->
        IF i < DeclarationIndex THEN DeclarationIndex - i ELSE i + 1]

\* C14: with the definitions in the target's tree, the first sibling in that
\* order whose definition resolves into the target is the anchor: the result
\* is after the end of that definition's statement for a sibling before the
\* declaration, before the definition's start for one after it.
C14_AsStated ==
    ( /\ targetPc = "returned"
      /\ targetSymbols # <<>>
      /\ \E k \in 1..MaxDeclarations :
            k # DeclarationIndex /\ callArgs.resolves[k] = "target" )
    => \E i \in 1..(MaxDeclarations - 1) :
          /\ callArgs.resolves[SiblingOrder[i]] = "target"
          /\ \A j \in 1..(i - 1) : callArgs.resolves[SiblingOrder[j]] # "target"
          /\ proposed =
                IF SiblingOrder[i] < DeclarationIndex
                THEN [value |-> LineEnd(TargetLines, SiblingOrder[i]),
                      before |-> "unset", after |-> "true", nextTo |-> "unset"]
                ELSE [value |-> Pos(SiblingOrder[i], 0),
                      before |-> "true", after |-> "unset", nextTo |-> "unset"]

\* The scope prefixes of names, outermost first, those of keep.
RECURSIVE KeptPrefixes(_, _, _)
KeptPrefixes(names, keep, i) ==
    IF i > Len(names) THEN <<>>
    ELSE (IF keep[i] THEN names[i] \o <<":", ":">> ELSE <<>>)
             \o KeptPrefixes(names, keep, i + 1)

\* C17: the scope string holds the prefix of every scope of the declaration,
\* outermost first, but for scopes that have a symbol of the same name in the
\* target whose range contains the position passed.
C17_AsStated ==
    targetPc = "formatted" =>
        LET scopeList == scopes(heap, declaration)
            names == [i \in 1..Len(scopeList) |-> heap[scopeList[i]].name]
            mayOmit(i) ==
                /\ callArgs.position # NoPos
                /\ targetSymbols # Undefined
                /\ \E id \in TreeIds(heap, targetSymbols) :
                      /\ heap[id].name = names[i]
                      /\ contains(heap[id].range, callArgs.position)
        IN \E keep \in [1..Len(scopeList) -> BOOLEAN] :
              /\ \A i \in 1..Len(scopeList) : ~mayOmit(i) => keep[i]
              /\ qualified = KeptPrefixes(names, keep, 1)

=============================================================================
